---------------------------- MODULE Spec2Model ----------------------------
(***************************************************************************)
(* Model of the splitter-files carving engine (cavbleu/splitter-files):    *)
(* the signature scanner and boundary resolver of internal/extractor, the  *)
(* scheduler / worker pool / aggregator of internal/worker.                *)
(*                                                                         *)
(* Bytes are integers 0..255.  A Go byte slice is a view [buf, lo, hi] of  *)
(* one of the input buffers: buf names the buffer, lo..hi-1 are the        *)
(* (0-based) indices of the buffer the slice covers, so that reslicing     *)
(* data[a:b] shares the buffer exactly as in Go.  Byte-string literals of  *)
(* the source are tuples of bytes.                                         *)
(***************************************************************************)
EXTENDS Integers, Sequences, FiniteSets, TLC

VARIABLES
    input,              \* index of the input buffer handed to ProcessFile (data)
    numWorkers,         \* ProcessFile argument numWorkers
    allowedExtensions,  \* ProcessFile argument allowedExtensions (a set; {} = empty map)
    pc,                 \* position of the ProcessFile goroutine
    pos,                \* scheduler.go:121
    counter,            \* scheduler.go:122
    officeQueue,        \* scheduler.go:125
    regularQueue,       \* scheduler.go:126
    backoff,            \* TRUE when the last scheduler iteration ended in the time.After case
    jobs,               \* wp.jobs: buffered channel contents
    jobsClosed,         \* close(wp.jobs) has happened
    wpc,                \* position of each worker goroutine: "recv", "process", "send", "done"
    taken,              \* pool.go:64  the chunk a worker has received and not yet processed
    held,               \* the result record a worker is about to send on results
    chanResults,        \* wp.results: buffered channel contents
    resultsClosed,      \* close(wp.results) has happened
    apc,                \* position of the aggregator goroutine: "loop", "done"
    results,            \* scheduler.go:25   successful results, in arrival order
    processingErrors,   \* scheduler.go:26   error results received, per kind of error
    extractedFiles,     \* scheduler.go:28
    extractedRanges,    \* scheduler.go:33
    stats,              \* scheduler.go:20   *models.ExtractionStats
    disk,               \* the output directory: file name -> bytes written (a view of the input)
    writeCalls,         \* number of ioutil.WriteFile calls that succeeded
    writeFailures,      \* number of ioutil.WriteFile calls that failed
    diskFaults,         \* number of WriteFile calls the output directory will still refuse
    dispatched,         \* number of chunks sent on jobs so far
    ret                 \* the error ProcessFile returned, a nil pointer until it returns

vars == << input, numWorkers, allowedExtensions, pc, pos, counter, officeQueue,
           regularQueue, backoff, jobs, jobsClosed, wpc, taken, held, chanResults,
           resultsClosed, apc, results, processingErrors, extractedFiles,
           extractedRanges, stats, disk, writeCalls, writeFailures, diskFaults,
           dispatched, ret >>

-----------------------------------------------------------------------------
(* Bounds of the model.                                                    *)

\* largest worker count ProcessFile is started with
MaxWorkers == 2
\* largest number of WriteFile calls the file system refuses in one run
MaxWriteFailures == 1

-----------------------------------------------------------------------------
(* Byte-string literals of the source.                                     *)

MagicOLE == <<208, 207, 17, 224, 161, 177, 26, 225>>
MagicPK == <<80, 75, 3, 4>>
MagicJPG == <<255, 216, 255>>
MagicPDF == <<37, 80, 68, 70>>
MagicRTF == <<123, 92, 114, 116, 102, 49>>
MagicFODS == <<60, 63, 120, 109, 108, 32, 118, 101, 114, 115, 105, 111, 110,
               61, 34, 49, 46, 48, 34, 63, 62>>
MagicHTMLDoctype == <<60, 33, 68, 79, 67, 84, 89, 80, 69, 32, 104, 116, 109, 108>>
MagicHTMLLower == <<60, 104, 116, 109, 108>>
MagicHTMLUpper == <<60, 72, 84, 77, 76>>
MagicEOCD == <<80, 75, 5, 6>>
MagicCDH == <<80, 75, 1, 2>>
MarkerEOI == <<255, 217>>
MarkerEncHeader == <<254, 255, 255, 255>>

StrWordDocument == <<87, 111, 114, 100, 68, 111, 99, 117, 109, 101, 110, 116>>
StrWorkbook == <<87, 111, 114, 107, 98, 111, 111, 107>>
StrPowerPoint == <<80, 111, 119, 101, 114, 80, 111, 105, 110, 116>>
StrVbaProject == <<95, 86, 66, 65, 95, 80, 82, 79, 74, 69, 67, 84>>
StrEncrypt16 == <<69, 0, 110, 0, 99, 0, 114, 0, 121, 0, 112, 0, 116, 0>>
StrEncryptPackage16 == <<69, 0, 110, 0, 99, 0, 114, 0, 121, 0, 112, 0, 116, 0,
                         80, 0, 97, 0, 99, 0, 107, 0, 97, 0, 103, 0, 101>>
StrEncryptionInfo16 == <<69, 0, 110, 0, 99, 0, 114, 0, 121, 0, 112, 0, 116, 0,
                         105, 0, 111, 0, 110, 0, 73, 0, 110, 0, 102, 0, 111>>
StrDefaultPassword16 == <<68, 0, 101, 0, 102, 0, 97, 0, 117, 0, 108, 0, 116, 0,
                          80, 0, 97, 0, 115, 0, 115, 0, 119, 0, 111, 0, 114, 0, 100>>
StrEOF == <<37, 37, 69, 79, 70>>
StrPdfPrefix == <<37, 80, 68, 70, 45>>
StrXref == <<120, 114, 101, 102>>
StrSpObj == <<32, 48, 32, 111, 98, 106>>
StrNlObj == <<10, 48, 32, 111, 98, 106>>
StrStartxref == <<115, 116, 97, 114, 116, 120, 114, 101, 102>>
Str10 == <<49, 46, 48>>
Str20 == <<50, 46, 48>>
StrXmlDecl == <<60, 63, 120, 109, 108, 32, 118, 101, 114, 115, 105, 111, 110,
                61, 34, 49, 46, 48, 34, 63, 62>>
StrOfficeDocument == <<111, 102, 102, 105, 99, 101, 58, 100, 111, 99, 117, 109,
                       101, 110, 116>>
StrMimetype == <<109, 105, 109, 101, 116, 121, 112, 101>>
StrContentXml == <<99, 111, 110, 116, 101, 110, 116, 46, 120, 109, 108>>
StrStylesXml == <<115, 116, 121, 108, 101, 115, 46, 120, 109, 108>>
StrMimeText == <<97, 112, 112, 108, 105, 99, 97, 116, 105, 111, 110, 47, 118,
                 110, 100, 46, 111, 97, 115, 105, 115, 46, 111, 112, 101, 110,
                 100, 111, 99, 117, 109, 101, 110, 116, 46, 116, 101, 120, 116>>
StrMimeSheet == <<97, 112, 112, 108, 105, 99, 97, 116, 105, 111, 110, 47, 118,
                  110, 100, 46, 111, 97, 115, 105, 115, 46, 111, 112, 101, 110,
                  100, 111, 99, 117, 109, 101, 110, 116, 46, 115, 112, 114, 101,
                  97, 100, 115, 104, 101, 101, 116>>
StrMimePres == <<97, 112, 112, 108, 105, 99, 97, 116, 105, 111, 110, 47, 118,
                 110, 100, 46, 111, 97, 115, 105, 115, 46, 111, 112, 101, 110,
                 100, 111, 99, 117, 109, 101, 110, 116, 46, 112, 114, 101, 115,
                 101, 110, 116, 97, 116, 105, 111, 110>>
\* the strings of the [Content_Types].xml decoder (main.go:487-513)
StrContentTypesXml == <<91, 67, 111, 110, 116, 101, 110, 116, 95, 84, 121, 112, 101, 115, 93,
    46, 120, 109, 108>>
StrTypes == <<84, 121, 112, 101, 115>>
StrDefault == <<68, 101, 102, 97, 117, 108, 116>>
StrOverride == <<79, 118, 101, 114, 114, 105, 100, 101>>
StrContentType == <<67, 111, 110, 116, 101, 110, 116, 84, 121, 112, 101>>
StrWordprocessing == <<119, 111, 114, 100, 112, 114, 111, 99, 101, 115, 115, 105, 110, 103>>
StrSpreadsheet == <<115, 112, 114, 101, 97, 100, 115, 104, 101, 101, 116>>
StrPresentation == <<112, 114, 101, 115, 101, 110, 116, 97, 116, 105, 111, 110>>
\* "word/", the content prefix of the docx descriptor
StrWordPrefix == <<119, 111, 114, 100, 47>>

CharCR == 13
CharLF == 10
CharSP == 32
CharTAB == 9

-----------------------------------------------------------------------------
(* The input buffers the model runs on.                                    *)

\* n filler bytes
Fill(n) == [i \in 1..n |-> 0]

\* a JPEG of n bytes: SOI, APP0 marker, payload, EOI
JpegFile(n) == MagicJPG \o <<224>> \o Fill(n - 6) \o MarkerEOI

\* "%PDF-1.4\n1 0 obj\nxref\nstartxref 9\n"
PdfHead ==
    <<37, 80, 68, 70, 45, 49, 46, 52, 10, 49, 32, 48, 32, 111, 98, 106, 10,
      120, 114, 101, 102, 10, 115, 116, 97, 114, 116, 120, 114, 101, 102, 32,
      57, 10>>

\* a PDF of n bytes that ends in %%EOF LF
PdfFile(n) == PdfHead \o Fill(n - 40) \o StrEOF \o <<CharLF>>

\* a PDF of n bytes whose body holds the bytes FF D9 (as the binary stream
\* of an embedded image does)
PdfWithImage(n) == PdfHead \o MarkerEOI \o Fill(n - 42) \o StrEOF \o <<CharLF>>

\* an MS-OLE compound file of n bytes with a WordDocument stream name
DocFile(n) == MagicOLE \o Fill(8) \o StrWordDocument \o Fill(n - 28)

\* unrecognised bytes, then two JPEG headers two bytes apart and an RTF
\* header (FF D8 FF D8 FF {\rtf1), payload, one EOI, two trailing bytes:
\* the suffixes at 10, 12 and 15 are 2052, 2050 and 2047 bytes long and the
\* EOI ends 2050 bytes after offset 10
InGapEdge == Fill(10) \o <<255, 216, 255, 216, 255>> \o MagicRTF \o Fill(2037)
             \o MarkerEOI \o Fill(2)
\* a JPEG of 2048 bytes and a PDF of 2048 bytes, concatenated
InJpegPdf == JpegFile(2048) \o PdfWithImage(2048)
\* unrecognised bytes only
InNoise == Fill(20)
\* nothing at all
InEmpty == << >>
\* fewer than the 8 bytes the scheduler asks for
InTiny == Fill(5)
\* exactly 8 bytes
InEight == Fill(8)
\* a short MS-OLE compound file header followed by unrecognised bytes
InDoc == DocFile(30)

\* the local header and body of [Content_Types].xml and the local header of word/document.xml
ZipDocxHead ==
    <<80, 75, 3, 4, 20, 0, 0, 0, 0, 0, 0, 0, 33, 80, 226, 142, 156, 1, 116,
      0, 0, 0, 116, 0, 0, 0, 19, 0, 0, 0, 91, 67, 111, 110, 116, 101, 110,
      116, 95, 84, 121, 112, 101, 115, 93, 46, 120, 109, 108, 60, 84, 121,
      112, 101, 115, 62, 60, 68, 101, 102, 97, 117, 108, 116, 32, 69, 120,
      116, 101, 110, 115, 105, 111, 110, 61, 34, 120, 109, 108, 34, 32, 67,
      111, 110, 116, 101, 110, 116, 84, 121, 112, 101, 61, 34, 119, 111,
      114, 100, 47, 120, 34, 47, 62, 60, 79, 118, 101, 114, 114, 105, 100,
      101, 32, 80, 97, 114, 116, 78, 97, 109, 101, 61, 34, 47, 100, 34, 32,
      67, 111, 110, 116, 101, 110, 116, 84, 121, 112, 101, 61, 34, 119, 111,
      114, 100, 112, 114, 111, 99, 101, 115, 115, 105, 110, 103, 34, 47, 62,
      60, 47, 84, 121, 112, 101, 115, 62, 80, 75, 3, 4, 20, 0, 0, 0, 0, 0,
      0, 0, 33, 80, 68, 244, 201, 2, 208, 7, 0, 0, 208, 7, 0, 0, 17, 0, 0,
      0, 119, 111, 114, 100, 47, 100, 111, 99, 117, 109, 101, 110, 116, 46,
      120, 109, 108>>

\* the central directory and the end-of-central-directory record
ZipDocxTail ==
    <<80, 75, 1, 2, 20, 0, 20, 0, 0, 0, 0, 0, 0, 0, 33, 80, 226, 142, 156,
      1, 116, 0, 0, 0, 116, 0, 0, 0, 19, 0, 0, 0, 0, 0, 0, 0, 0, 0, 0, 0,
      128, 1, 0, 0, 0, 0, 91, 67, 111, 110, 116, 101, 110, 116, 95, 84, 121,
      112, 101, 115, 93, 46, 120, 109, 108, 80, 75, 1, 2, 20, 0, 20, 0, 0,
      0, 0, 0, 0, 0, 33, 80, 68, 244, 201, 2, 208, 7, 0, 0, 208, 7, 0, 0,
      17, 0, 0, 0, 0, 0, 0, 0, 0, 0, 0, 0, 128, 1, 165, 0, 0, 0, 119, 111,
      114, 100, 47, 100, 111, 99, 117, 109, 101, 110, 116, 46, 120, 109,
      108, 80, 75, 5, 6, 0, 0, 0, 0, 2, 0, 2, 0, 128, 0, 0, 0, 164, 8, 0, 0,
      0, 0>>

\* a ZIP container of 2362 bytes with two stored members: [Content_Types].xml,
\* holding <Types><Default Extension="xml" ContentType="word/x"/><Override
\* PartName="/d" ContentType="wordprocessing"/></Types>, and
\* word/document.xml of 2000 bytes
InDocx == ZipDocxHead \o Fill(2000) \o ZipDocxTail

\* a PDF whose %%EOF is followed by the bytes of tail, then by three
\* unrecognised bytes
PdfTrailed(tail) == PdfHead \o Fill(61) \o StrEOF \o tail \o Fill(3)

\* PDFs with the trailer followed by LF, by CR, by CR LF and by a space
InPdfLF == PdfTrailed(<<CharLF>>)
InPdfCR == PdfTrailed(<<CharCR>>)
\* the CR LF one is large enough to be written: %%EOF at index 2054
InPdfCRLF == PdfHead \o Fill(2020) \o StrEOF \o <<CharCR, CharLF>> \o Fill(3)
InPdfSP == PdfTrailed(<<CharSP>>)
\* a PDF of 100 bytes that ends with %%EOF
InPdfBare == PdfHead \o Fill(61) \o StrEOF
\* a ZIP local header without an end-of-central-directory record, with an
\* RTF header 2104 bytes in
InZipCut == MagicPK \o Fill(2100) \o MagicRTF \o Fill(60)
\* a JPEG header, a second JPEG header 2054 bytes in, and one EOI as the
\* last two bytes of the input
InJpegTwice == MagicJPG \o <<224>> \o Fill(2050) \o MagicJPG \o Fill(55) \o MarkerEOI

\* the local header and body of mimetype (an OpenDocument spreadsheet) and the local header of content.xml
ZipOdsHead ==
    <<80, 75, 3, 4, 20, 0, 0, 0, 0, 0, 0, 0, 33, 0, 133, 108, 57, 138, 46,
      0, 0, 0, 46, 0, 0, 0, 8, 0, 0, 0, 109, 105, 109, 101, 116, 121, 112,
      101, 97, 112, 112, 108, 105, 99, 97, 116, 105, 111, 110, 47, 118,
      110, 100, 46, 111, 97, 115, 105, 115, 46, 111, 112, 101, 110, 100,
      111, 99, 117, 109, 101, 110, 116, 46, 115, 112, 114, 101, 97, 100,
      115, 104, 101, 101, 116, 80, 75, 3, 4, 20, 0, 0, 0, 0, 0, 0, 0, 33,
      0, 68, 244, 201, 2, 208, 7, 0, 0, 208, 7, 0, 0, 11, 0, 0, 0, 99, 111,
      110, 116, 101, 110, 116, 46, 120, 109, 108>>

\* the central directory of the two members and the end-of-central-directory record
ZipOdsTail ==
    <<80, 75, 1, 2, 20, 0, 20, 0, 0, 0, 0, 0, 0, 0, 33, 0, 133, 108, 57,
      138, 46, 0, 0, 0, 46, 0, 0, 0, 8, 0, 0, 0, 0, 0, 0, 0, 0, 0, 0, 0,
      128, 1, 0, 0, 0, 0, 109, 105, 109, 101, 116, 121, 112, 101, 80, 75,
      1, 2, 20, 0, 20, 0, 0, 0, 0, 0, 0, 0, 33, 0, 68, 244, 201, 2, 208, 7,
      0, 0, 208, 7, 0, 0, 11, 0, 0, 0, 0, 0, 0, 0, 0, 0, 0, 0, 128, 1, 84,
      0, 0, 0, 99, 111, 110, 116, 101, 110, 116, 46, 120, 109, 108, 80, 75,
      5, 6, 0, 0, 0, 0, 2, 0, 2, 0, 111, 0, 0, 0, 77, 8, 0, 0, 0, 0>>

\* an OpenDocument spreadsheet of 2258 bytes followed by two unrecognised bytes
InOds == ZipOdsHead \o Fill(2000) \o ZipOdsTail \o Fill(2)
\* an MS-OLE compound file of 2100 bytes with the stream names PowerPoint,
\* Workbook and _VBA_PROJECT, in this order, and the byte at 0x2F set to 1
InXls == MagicOLE \o Fill(39) \o <<1>> \o StrPowerPoint \o StrWorkbook
         \o StrVbaProject \o Fill(2022)
\* an MS-OLE compound file with the stream name PowerPoint, followed 2048
\* bytes in by a JPEG header, ten bytes and an EOI
InPpt == MagicOLE \o Fill(20) \o StrPowerPoint \o Fill(2010) \o MagicJPG
         \o Fill(10) \o MarkerEOI

Inputs == << InNoise, InEmpty, InTiny, InEight, InDoc, InGapEdge, InJpegPdf, InDocx,
             InPdfLF, InPdfCR, InPdfCRLF, InPdfSP, InPdfBare, InZipCut, InJpegTwice,
             InOds, InXls, InPpt >>

\* the inputs short enough to be run with every worker count
ShortInputs == {k \in 1..Len(Inputs) : Len(Inputs[k]) < 100}

\* for the inputs built by concatenating whole files: the files' [start, end) ranges
InputParts ==
    [k \in 1..Len(Inputs) |->
        IF Inputs[k] = InJpegPdf THEN << <<0, 2048>>, <<2048, 4096>> >> ELSE << >>]

-----------------------------------------------------------------------------
(* Go slices and the bytes package.                                        *)

\* the slice data[:] of a whole input buffer
Whole(k) == [buf |-> k, lo |-> 0, hi |-> Len(Inputs[k])]
\* len(s)
LenB(s) == s.hi - s.lo
\* a slice of bytes the program has made itself (buffer 0): what
\* ioutil.ReadAll returns
MemSlice(bytes) == [buf |-> 0, lo |-> 0, hi |-> Len(bytes), mem |-> bytes]
\* the array under a slice
Buffer(s) == IF s.buf = 0 THEN s.mem ELSE Inputs[s.buf]
\* s[i]
ByteAt(s, i) == Buffer(s)[s.lo + i + 1]
\* s[a:b] and s[a:]
Slice(s, a, b) == [s EXCEPT !.lo = s.lo + a, !.hi = s.lo + b]
SliceFrom(s, a) == [s EXCEPT !.lo = s.lo + a]
\* the bytes of a slice, as a tuple
Bytes(s) == SubSeq(Buffer(s), s.lo + 1, s.hi)

\* pat occurs in s at index i
MatchAt(s, i, pat) ==
    /\ i >= 0
    /\ i + Len(pat) <= LenB(s)
    /\ \A j \in 1..Len(pat) : ByteAt(s, i + j - 1) = pat[j]

SetMin(S) == CHOOSE x \in S : \A y \in S : x <= y
SetMax(S) == CHOOSE x \in S : \A y \in S : x >= y

\* bytes.Index(s, pat): first index of pat in s, -1 if absent
Index(s, pat) ==
    LET occ == {i \in 0..(LenB(s) - Len(pat)) : MatchAt(s, i, pat)}
    IN  IF occ = {} THEN -1 ELSE SetMin(occ)

\* bytes.LastIndex(s, pat)
LastIndex(s, pat) ==
    LET occ == {i \in 0..(LenB(s) - Len(pat)) : MatchAt(s, i, pat)}
    IN  IF occ = {} THEN -1 ELSE SetMax(occ)

\* bytes.Contains(s, pat)
Contains(s, pat) == \E i \in 0..(LenB(s) - Len(pat)) : MatchAt(s, i, pat)

\* bytes.HasPrefix(s, pat)
HasPrefix(s, pat) == MatchAt(s, 0, pat)

\* Go's string comparison a < b on byte tuples of equal length 3
StrLess(a, b) ==
    \/ a[1] < b[1]
    \/ a[1] = b[1] /\ a[2] < b[2]
    \/ a[1] = b[1] /\ a[2] = b[2] /\ a[3] < b[3]

-----------------------------------------------------------------------------
(* internal/models: office file types.                                     *)

UnknownOffice == 0
WordDocument == 1
ExcelDocument == 2
PowerPointDocument == 3

\* the zero value &models.OfficeDocumentInfo{}
ZeroOfficeInfo ==
    [Type |-> UnknownOffice, Version |-> "", IsEncrypted |-> FALSE, IsMacro |-> FALSE]

\* a nil error
Nil == "nil"
\* a nil pointer
NilPtr == [nil |-> TRUE]

-----------------------------------------------------------------------------
(* archive/zip and compress/flate of the Go library, as zip.NewReader,     *)
(* File.Open and ioutil.ReadAll use them on a bytes.Reader over the        *)
(* region.                                                                 *)

ErrFormat == "zip: not a valid zip file"
ErrAlgorithm == "zip: unsupported compression algorithm"
ErrChecksum == "zip: checksum error"
ErrUnexpectedEOF == "unexpected EOF"
ErrEOF == "EOF"
ErrCorruptInput == "flate: corrupt input"

\* readBuf.uint16 on the bytes b that were read into a buffer, from index i on
LE16(b, i) == b[i + 1] + 256 * b[i + 2]

\* an int64 or uint64, as four 16-bit digits, the least significant first
I64(n) == <<n % 65536, n \div 65536, 0, 0>>
\* readBuf.uint16, uint32 and uint64, widened to 64 bits
U16At(b, i) == <<LE16(b, i), 0, 0, 0>>
U32At(b, i) == <<LE16(b, i), LE16(b, i + 2), 0, 0>>
U64At(b, i) == <<LE16(b, i), LE16(b, i + 2), LE16(b, i + 4), LE16(b, i + 6)>>

\* digit k of a + b before the reduction to 16 bits, carry included
RECURSIVE DigitSum(_, _, _)
DigitSum(a, b, k) ==
    a[k] + b[k] + (IF k = 1 THEN 0 ELSE DigitSum(a, b, k - 1) \div 65536)

\* a + b, a - b in 64 bits, wrapping
Add64(a, b) ==
    <<DigitSum(a, b, 1) % 65536, DigitSum(a, b, 2) % 65536,
      DigitSum(a, b, 3) % 65536, DigitSum(a, b, 4) % 65536>>
Neg64(a) ==
    Add64(<<65535 - a[1], 65535 - a[2], 65535 - a[3], 65535 - a[4]>>, I64(1))
Sub64(a, b) == Add64(a, Neg64(b))
\* a < 0 as an int64
IsNeg64(a) == a[4] >= 32768
\* 0 <= a < n, for n a length of the region
InRange64(a, n) == a[3] = 0 /\ a[4] = 0 /\ a[2] < 32768 /\ a[1] + 65536 * a[2] < n
\* the value of an a that is in the range of the region
AsInt(a) == a[1] + 65536 * a[2]

\* the answer of findSignatureInBlock for the signature found at i: -1
\* when there is none or when its comment runs past the end of b
signatureAt(b, i) ==
    IF i = -1 THEN -1
    ELSE IF LE16(b, i + 20) + 22 + i > Len(b) THEN -1
    ELSE i

\* findSignatureInBlock on the bytes b of a block: the scan runs backwards
\* from len(b)-22 and stops at the first signature it meets
findSignatureInBlock(b) ==
    IF Len(b) < 22 THEN -1
    ELSE signatureAt(b, LastIndex(MemSlice(SubSeq(b, 1, Len(b) - 18)), MagicEOCD))

\* the length of the block readDirectoryEnd reads: bLen, or the whole region
blockLen(data, bLen) == IF bLen > LenB(data) THEN LenB(data) ELSE bLen

\* the block of the last bLen bytes of the region, read into a buffer
LastBlock(data, bLen) == Bytes(SliceFrom(data, LenB(data) - blockLen(data, bLen)))

\* the offset in the region of the record found at p of the block
foundIn(data, bLen, p) ==
    IF p >= 0 THEN LenB(data) - blockLen(data, bLen) + p ELSE -1

\* the second block of readDirectoryEnd, for the answer p of the first
secondBlock(data, p) ==
    IF p >= 0 THEN foundIn(data, 1024, p)
    ELSE IF blockLen(data, 1024) = LenB(data) THEN -1
    ELSE foundIn(data, 65 * 1024, findSignatureInBlock(LastBlock(data, 65 * 1024)))

\* the search of readDirectoryEnd: the last 1024 bytes, then the last
\* 65*1024; the offset of the end-of-directory record in the region, or -1
findDirectoryEnd(data) ==
    secondBlock(data, findSignatureInBlock(LastBlock(data, 1024)))

-----------------------------------------------------------------------------
(* The central directory.                                                  *)

\* the fields of an extra block e are consumed one after the other: need
\* is the flag of the field wanted, name the field it fills
zip64Field(e, st, need, name) ==
    IF st.err # Nil \/ ~st[need] THEN st
    ELSE IF st.r < 8 THEN [st EXCEPT !.err = ErrFormat]
    ELSE [st EXCEPT ![need] = FALSE, ![name] = U64At(e, st.p),
                    !.p = @ + 8, !.r = @ - 8]

\* case zip64ExtraID of readDirectoryHeader, on the field of size r at p
zip64Extra(e, st, p, r) ==
    zip64Field(e,
        zip64Field(e,
            zip64Field(e, [st EXCEPT !.p = p, !.r = r],
                       "needUSize", "UncompressedSize64"),
            "needCSize", "CompressedSize64"),
        "needHeaderOffset", "headerOffset")

\* the loop parseExtras over e = f.Extra, from index x on
RECURSIVE parseExtras(_, _, _)
parseExtras(e, x, st) ==
    IF st.err # Nil \/ Len(e) - x < 4 THEN st
    ELSE IF Len(e) - (x + 4) < LE16(e, x + 2) THEN st
    ELSE parseExtras(e, x + 4 + LE16(e, x + 2),
                     IF LE16(e, x) = 1
                     THEN zip64Extra(e, st, x + 4, LE16(e, x + 2))
                     ELSE st)

\* the end of readDirectoryHeader
extrasChecked(st) ==
    IF st.err = Nil /\ (st.needCSize \/ st.needHeaderOffset)
    THEN [st EXCEPT !.err = ErrFormat]
    ELSE st

\* the member described by the 46 bytes buf of a central-directory header
\* and the bytes d of its name, extra and comment; next is the place of the
\* header after it
zipMember(buf, d, filenameLen, extraLen, next) ==
    extrasChecked(parseExtras(SubSeq(d, filenameLen + 1, filenameLen + extraLen), 0,
        [err |-> Nil,
         Name |-> SubSeq(d, 1, filenameLen),
         Flags |-> LE16(buf, 8),
         Method |-> LE16(buf, 10),
         CRC32 |-> SubSeq(buf, 17, 20),
         CompressedSize64 |-> U32At(buf, 20),
         UncompressedSize64 |-> U32At(buf, 24),
         headerOffset |-> U32At(buf, 42),
         needCSize |-> SubSeq(buf, 21, 24) = <<255, 255, 255, 255>>,
         needUSize |-> SubSeq(buf, 25, 28) = <<255, 255, 255, 255>>,
         needHeaderOffset |-> SubSeq(buf, 43, 46) = <<255, 255, 255, 255>>,
         next |-> next,
         p |-> 0, r |-> 0]))

\* readDirectoryHeader after the 46 bytes: io.ReadFull of the name, extra
\* and comment, which start at j
headerStrings(s, j, buf, filenameLen, extraLen, commentLen) ==
    IF filenameLen + extraLen + commentLen > 0 /\ LenB(s) - j = 0
    THEN [err |-> ErrEOF]
    ELSE IF LenB(s) - j < filenameLen + extraLen + commentLen
    THEN [err |-> ErrUnexpectedEOF]
    ELSE zipMember(buf,
                   Bytes(Slice(s, j, j + filenameLen + extraLen + commentLen)),
                   filenameLen, extraLen,
                   j + filenameLen + extraLen + commentLen)

\* readDirectoryHeader once the 46 bytes buf of the header at i are read
directoryHeader(s, i, buf) ==
    IF SubSeq(buf, 1, 4) # MagicCDH THEN [err |-> ErrFormat]
    ELSE headerStrings(s, i + 46, buf, LE16(buf, 28), LE16(buf, 30), LE16(buf, 32))

\* readDirectoryHeader on the bytes of the region from i on: io.ReadFull
\* answers EOF when no byte is left and ErrUnexpectedEOF when too few are
readDirectoryHeader(s, i) ==
    IF LenB(s) - i <= 0 THEN [err |-> ErrEOF]
    ELSE IF LenB(s) - i < 46 THEN [err |-> ErrUnexpectedEOF]
    ELSE directoryHeader(s, i, Bytes(Slice(s, i, i + 46)))

\* the loop of Reader.init from the header at i on: the members read so
\* far are files; the loop ends at a header that is malformed or cut
\* short, any other error is returned at once
RECURSIVE zipHeads(_, _, _, _)
zipHeadsNext(s, baseOffset, files, h) ==
    IF h.err \in {ErrFormat, ErrUnexpectedEOF}
    THEN [err |-> h.err, returned |-> FALSE, File |-> files]
    ELSE IF h.err # Nil THEN [err |-> h.err, returned |-> TRUE, File |-> files]
    ELSE zipHeads(s, h.next, baseOffset,
                  Append(files,
                         [h EXCEPT !.headerOffset = Add64(@, baseOffset)]))

zipHeads(s, i, baseOffset, files) ==
    zipHeadsNext(s, baseOffset, files, readDirectoryHeader(s, i))

\* the end of Reader.init: the count of members read is compared, in 16
\* bits, with the count of the directory end
zipCounted(records, dir) ==
    IF dir.returned THEN [err |-> dir.err, File |-> << >>]
    ELSE IF Len(dir.File) % 65536 # records THEN [err |-> dir.err, File |-> << >>]
    ELSE [err |-> Nil, File |-> dir.File]

\* Reader.init once the directory end is read: records is the number of
\* entries it gives, cut to 16 bits, o the place of the first header
zipInit(s, records, o, baseOffset) ==
    zipCounted(records, zipHeads(s, o, baseOffset, << >>))

-----------------------------------------------------------------------------
(* hash/crc32: the IEEE checksum, on 32-bit words kept as four bytes, the  *)
(* least significant first.                                                *)

\* a XOR b for naturals below 2^n
RECURSIVE Xor(_, _, _)
Xor(a, b, n) ==
    IF n = 0 THEN 0 ELSE ((a + b) % 2) + 2 * Xor(a \div 2, b \div 2, n - 1)

Xor32(a, b) ==
    <<Xor(a[1], b[1], 8), Xor(a[2], b[2], 8), Xor(a[3], b[3], 8), Xor(a[4], b[4], 8)>>

\* w >> 1
Shr1(w) ==
    <<(w[1] \div 2) + 128 * (w[2] % 2), (w[2] \div 2) + 128 * (w[3] % 2),
      (w[3] \div 2) + 128 * (w[4] % 2), w[4] \div 2>>

\* crc32.IEEE = 0xedb88320
IEEE == <<32, 131, 184, 237>>

\* the inner loop of simpleMakeTable, n times
RECURSIVE crcBits(_, _)
crcBits(w, n) ==
    IF n = 0 THEN w
    ELSE crcBits(IF w[1] % 2 = 1 THEN Xor32(Shr1(w), IEEE) ELSE Shr1(w), n - 1)

\* crc32.IEEETable
IEEETable == [i \in 0..255 |-> crcBits(<<i, 0, 0, 0>>, 8)]

\* one step of simpleUpdate: tab[byte(crc)^v] ^ (crc >> 8)
crcUpdate(crc, v) ==
    Xor32(IEEETable[Xor(crc[1], v, 8)], <<crc[2], crc[3], crc[4], 0>>)

\* at most fuel turns of the loop of simpleUpdate over p, i bytes of it done
RECURSIVE crcRun(_, _, _)
crcRun(st, p, fuel) ==
    IF st.i >= Len(p) \/ fuel = 0 THEN st
    ELSE IF fuel = 1
    THEN [crc |-> crcUpdate(st.crc, p[st.i + 1]), i |-> st.i + 1]
    ELSE crcRun(crcRun(st, p, fuel \div 2), p, fuel - fuel \div 2)

\* crc32.ChecksumIEEE(p), as the four bytes a zip header stores
ChecksumIEEE(p) ==
    Xor32(crcRun([crc |-> <<255, 255, 255, 255>>, i |-> 0], p, Len(p)).crc,
          <<255, 255, 255, 255>>)

-----------------------------------------------------------------------------
(* compress/flate: the decompressor, on the bytes c of the section.         *)

\* the number of bits of the bytes c
NBits(c) == 8 * Len(c)
\* bit p of c, the least significant bit of each byte first
Bit(c, p) == (c[(p \div 8) + 1] \div (2^(p % 8))) % 2
\* the n bits from p on, as a number, the first bit the least significant
RECURSIVE BitsAt(_, _, _)
BitsAt(c, p, n) == IF n = 0 THEN 0 ELSE Bit(c, p) + 2 * BitsAt(c, p + 1, n - 1)
\* the n bits from p on, the first bit the most significant
RECURSIVE BitsReversed(_, _, _)
BitsReversed(c, p, n) ==
    IF n = 0 THEN 0 ELSE 2^(n - 1) * Bit(c, p) + BitsReversed(c, p + 1, n - 1)

\* the symbols of code length l, in increasing order, each plus one
huffmanSyms(lengths, l) ==
    SelectSeq([k \in 1..Len(lengths) |-> k], LAMBDA k : lengths[k] = l)

\* nextcode[l] of huffmanDecoder.init: the first code of length l
RECURSIVE firstCode(_, _)
firstCode(syms, l) ==
    IF l = 1 THEN 0 ELSE 2 * (firstCode(syms, l - 1) + Len(syms[l - 1]))

\* the test of huffmanDecoder.init: no code at all, or a complete coding,
\* or a single code of length 1
huffmanComplete(syms) ==
    \/ \A l \in 1..15 : syms[l] = << >>
    \/ \E max \in 1..15 :
          /\ syms[max] # << >>
          /\ \A l \in (max + 1)..15 : syms[l] = << >>
          /\ \/ firstCode(syms, max) + Len(syms[max]) = 2^max
             \/ firstCode(syms, max) + Len(syms[max]) = 1 /\ max = 1

\* the decoder for the symbols syms, by code length
huffmanCoded(syms) ==
    [syms |-> syms,
     first |-> <<firstCode(syms, 1), firstCode(syms, 2), firstCode(syms, 3),
                 firstCode(syms, 4), firstCode(syms, 5), firstCode(syms, 6),
                 firstCode(syms, 7), firstCode(syms, 8), firstCode(syms, 9),
                 firstCode(syms, 10), firstCode(syms, 11), firstCode(syms, 12),
                 firstCode(syms, 13), firstCode(syms, 14), firstCode(syms, 15)>>,
     ok |-> huffmanComplete(syms)]

\* huffmanDecoder.init(lengths)
huffmanDecoder(lengths) ==
    huffmanCoded(<<huffmanSyms(lengths, 1), huffmanSyms(lengths, 2),
                   huffmanSyms(lengths, 3), huffmanSyms(lengths, 4),
                   huffmanSyms(lengths, 5), huffmanSyms(lengths, 6),
                   huffmanSyms(lengths, 7), huffmanSyms(lengths, 8),
                   huffmanSyms(lengths, 9), huffmanSyms(lengths, 10),
                   huffmanSyms(lengths, 11), huffmanSyms(lengths, 12),
                   huffmanSyms(lengths, 13), huffmanSyms(lengths, 14),
                   huffmanSyms(lengths, 15)>>)

\* huffSym: the symbol whose code the bits from p on start with; the code
\* is read bit by bit, l bits of it make code
RECURSIVE huffWalk(_, _, _, _, _)
huffTry(c, h, p, l, code) ==
    IF code >= h.first[l] /\ code - h.first[l] < Len(h.syms[l])
    THEN [err |-> Nil, sym |-> h.syms[l][code - h.first[l] + 1] - 1, p |-> p + l]
    ELSE huffWalk(c, h, p, l + 1, code)

huffWalk(c, h, p, l, code) ==
    IF l > 15 THEN [err |-> ErrCorruptInput]
    ELSE IF p + l > NBits(c) THEN [err |-> ErrUnexpectedEOF]
    ELSE huffTry(c, h, p, l, 2 * code + Bit(c, p + l - 1))

huffSym(c, h, p) == huffWalk(c, h, p, 1, 0)

\* the code lengths of the fixed Huffman code (fixedHuffmanDecoderInit)
FixedLengths ==
    [k \in 1..288 |-> IF k <= 144 THEN 8 ELSE IF k <= 256 THEN 9
                      ELSE IF k <= 280 THEN 7 ELSE 8]
fixedHuffmanDecoder == huffmanDecoder(FixedLengths)

\* codeOrder of inflate.go
codeOrder == <<16, 17, 18, 0, 8, 7, 9, 6, 10, 5, 11, 4, 12, 3, 13, 2, 14, 1, 15>>

\* f.codebits after the nclen lengths of 3 bits at p are read
codebits(c, p, nclen) ==
    LET place(sym) == CHOOSE i \in 1..19 : codeOrder[i] = sym
    IN  [k \in 1..19 |-> IF place(k - 1) <= nclen
                         THEN BitsAt(c, p + 3 * (place(k - 1) - 1), 3)
                         ELSE 0]

\* rep copies of b
Repeat(b, rep) == [k \in 1..rep |-> b]

\* the repeat codes 16, 17 and 18 of readHuffman: the code at x.p is
\* followed by nb bits, rep0 more than their value is the count, b the length
lengthsRepeated(c, ls, x, n, nb, rep0, b) ==
    IF x.p + nb > NBits(c) THEN [ls EXCEPT !.err = ErrUnexpectedEOF]
    ELSE IF Len(ls.bits) + rep0 + BitsAt(c, x.p, nb) > n
    THEN [ls EXCEPT !.err = ErrCorruptInput]
    ELSE [ls EXCEPT !.bits = @ \o Repeat(b, rep0 + BitsAt(c, x.p, nb)),
                    !.p = x.p + nb]

\* one turn of the loop of readHuffman that reads the n code lengths, for
\* the symbol x read
lengthsSym(c, ls, x, n) ==
    IF x.err # Nil THEN [ls EXCEPT !.err = x.err]
    ELSE IF x.sym < 16 THEN [ls EXCEPT !.bits = Append(@, x.sym), !.p = x.p]
    ELSE IF x.sym = 16 /\ ls.bits = << >> THEN [ls EXCEPT !.err = ErrCorruptInput]
    ELSE lengthsRepeated(c, ls, x, n,
                         CASE x.sym = 16 -> 2 [] x.sym = 17 -> 3 [] OTHER -> 7,
                         IF x.sym = 18 THEN 11 ELSE 3,
                         IF x.sym = 16 THEN ls.bits[Len(ls.bits)] ELSE 0)

\* at most fuel turns of that loop
RECURSIVE lengthsRead(_, _, _, _, _)
lengthsRead(c, h, ls, n, fuel) ==
    IF ls.err # Nil \/ Len(ls.bits) >= n \/ fuel = 0 THEN ls
    ELSE IF fuel = 1 THEN lengthsSym(c, ls, huffSym(c, h, ls.p), n)
    ELSE lengthsRead(c, h, lengthsRead(c, h, ls, n, fuel \div 2), n,
                     fuel - fuel \div 2)

\* the test of the two decoders of a dynamic block
tablesChecked(st) ==
    IF st.hl.ok /\ st.hd.ok THEN st ELSE [st EXCEPT !.err = ErrCorruptInput]

\* the end of readHuffman: the two decoders from the lengths read
huffmanTables(st, ls, nlit, ndist) ==
    IF ls.err # Nil THEN [st EXCEPT !.err = ls.err]
    ELSE tablesChecked([st EXCEPT !.p = ls.p, !.inblock = TRUE, !.fixed = FALSE,
                            !.hl = huffmanDecoder(SubSeq(ls.bits, 1, nlit)),
                            !.hd = huffmanDecoder(SubSeq(ls.bits, nlit + 1,
                                                         nlit + ndist))])

\* readHuffman after the code-length code h1 is built
huffmanLengths(c, st, h1, p, nlit, ndist) ==
    IF ~h1.ok THEN [st EXCEPT !.err = ErrCorruptInput]
    ELSE huffmanTables(st,
             lengthsRead(c, h1, [p |-> p, bits |-> << >>, err |-> Nil],
                         nlit + ndist, nlit + ndist),
             nlit, ndist)

\* readHuffman after HLIT, HDIST and HCLEN are read at p
huffmanCounts(c, st, p, nlit, ndist, nclen) ==
    IF nlit > 286 \/ ndist > 30 THEN [st EXCEPT !.err = ErrCorruptInput]
    ELSE IF p + 14 + 3 * nclen > NBits(c) THEN [st EXCEPT !.err = ErrUnexpectedEOF]
    ELSE huffmanLengths(c, st, huffmanDecoder(codebits(c, p + 14, nclen)),
                        p + 14 + 3 * nclen, nlit, ndist)

\* readHuffman: the header of a block with dynamic Huffman codes
readHuffman(c, st) ==
    IF st.p + 14 > NBits(c) THEN [st EXCEPT !.err = ErrUnexpectedEOF]
    ELSE huffmanCounts(c, st, st.p, BitsAt(c, st.p, 5) + 257,
                       BitsAt(c, st.p + 5, 5) + 1, BitsAt(c, st.p + 10, 4) + 4)

\* finishBlock: the block ends at bit p; the final block ends the stream
finishBlock(st, p) == [st EXCEPT !.p = p, !.inblock = FALSE, !.done = st.final]

\* dataBlock: a stored block, whose two lengths start at byte q
dataBlock(c, st, q) ==
    IF q + 4 > Len(c) THEN [st EXCEPT !.err = ErrUnexpectedEOF]
    ELSE IF LE16(c, q + 2) # 65535 - LE16(c, q)
    THEN [st EXCEPT !.err = ErrCorruptInput]
    ELSE IF q + 4 + LE16(c, q) > Len(c)
    THEN [st EXCEPT !.out = @ \o SubSeq(c, q + 5, Len(c)),
                    !.err = ErrUnexpectedEOF]
    ELSE finishBlock([st EXCEPT !.out = @ \o SubSeq(c, q + 5, q + 4 + LE16(c, q))],
                     8 * (q + 4 + LE16(c, q)))

\* nextBlock for the block type typ, the three header bits read
blockOfType(c, st, typ) ==
    CASE typ = 0 -> dataBlock(c, st, (st.p + 7) \div 8)
      [] typ = 1 -> [st EXCEPT !.inblock = TRUE, !.fixed = TRUE,
                               !.hl = fixedHuffmanDecoder]
      [] typ = 2 -> readHuffman(c, st)
      [] OTHER -> [st EXCEPT !.err = ErrCorruptInput]

\* nextBlock
nextBlock(c, st) ==
    IF st.p + 3 > NBits(c) THEN [st EXCEPT !.err = ErrUnexpectedEOF]
    ELSE blockOfType(c, [st EXCEPT !.final = (Bit(c, st.p) = 1), !.p = @ + 3],
                     BitsAt(c, st.p + 1, 2))

\* the copy of huffmanBlock: length bytes from dist bytes back
copied(st, p, length, dist) ==
    IF dist > Len(st.out) THEN [st EXCEPT !.err = ErrCorruptInput]
    ELSE [st EXCEPT !.p = p,
                    !.out = @ \o [k \in 1..length |->
                                     st.out[Len(st.out) - dist + 1 + ((k - 1) % dist)]]]

\* the number of extra bits of the distance code dist, and the distance
\* it stands for with the extra bits at p
distanceBits(dist) == IF dist < 4 THEN 0 ELSE (dist - 2) \div 2
distanceValue(c, p, dist) ==
    IF dist < 4 THEN dist + 1
    ELSE 2^(distanceBits(dist) + 1) + 1
            + (dist % 2) * 2^distanceBits(dist)
            + BitsAt(c, p, distanceBits(dist))

\* the distance of huffmanBlock for the distance code dist, read up to bit p
distanceOf(c, st, p, length, dist) ==
    IF dist >= 30 THEN [st EXCEPT !.err = ErrCorruptInput]
    ELSE IF p + distanceBits(dist) > NBits(c) THEN [st EXCEPT !.err = ErrUnexpectedEOF]
    ELSE copied(st, p + distanceBits(dist), length, distanceValue(c, p, dist))

\* the distance code as a symbol of the distance decoder
distanceSym(c, st, length, x) ==
    IF x.err # Nil THEN [st EXCEPT !.err = x.err]
    ELSE distanceOf(c, st, x.p, length, x.sym)

\* the distance code of huffmanBlock, from bit p on: five bits in a block
\* of fixed codes, a symbol of the distance decoder otherwise
distanceRead(c, st, p) ==
    IF st.fixed
    THEN IF p + 5 > NBits(c) THEN [err |-> ErrUnexpectedEOF]
         ELSE [err |-> Nil, sym |-> BitsReversed(c, p, 5), p |-> p + 5]
    ELSE huffSym(c, st.hd, p)

distanceCode(c, st, p, length) == distanceSym(c, st, length, distanceRead(c, st, p))

\* the length of huffmanBlock: base and n extra bits at p
lengthOf(c, st, p, base, n) ==
    IF p + n > NBits(c) THEN [st EXCEPT !.err = ErrUnexpectedEOF]
    ELSE distanceCode(c, st, p + n, base + BitsAt(c, p, n))

\* the base length and the number of extra bits of the length symbol v,
\* 257 <= v < 286
lengthBase(v) ==
    IF v < 265 THEN v - 254
    ELSE IF v < 269 THEN v * 2 - 519
    ELSE IF v < 273 THEN v * 4 - 1057
    ELSE IF v < 277 THEN v * 8 - 2149
    ELSE IF v < 281 THEN v * 16 - 4365
    ELSE IF v < 285 THEN v * 32 - 8861
    ELSE 258
lengthExtra(v) == IF v < 265 \/ v = 285 THEN 0 ELSE (v - 261) \div 4

\* one turn of the loop of huffmanBlock, for the symbol x read
blockSym(c, st, x) ==
    IF x.err # Nil THEN [st EXCEPT !.err = x.err]
    ELSE IF x.sym < 256 THEN [st EXCEPT !.out = Append(@, x.sym), !.p = x.p]
    ELSE IF x.sym = 256 THEN finishBlock(st, x.p)
    ELSE IF x.sym < 286
    THEN lengthOf(c, st, x.p, lengthBase(x.sym), lengthExtra(x.sym))
    ELSE [st EXCEPT !.err = ErrCorruptInput]

\* one step of the decompressor: a block header, or one symbol of a block
inflateStep(c, st) ==
    IF st.inblock THEN blockSym(c, st, huffSym(c, st.hl, st.p))
    ELSE nextBlock(c, st)

\* at most fuel steps of the decompressor
RECURSIVE inflateRun(_, _, _)
inflateRun(c, st, fuel) ==
    IF st.err # Nil \/ st.done \/ fuel = 0 THEN st
    ELSE IF fuel = 1 THEN inflateStep(c, st)
    ELSE inflateRun(c, inflateRun(c, st, fuel \div 2), fuel - fuel \div 2)

\* ioutil.ReadAll(flate.NewReader(c)): every step reads at least one bit
inflate(c) ==
    inflateRun(c, [p |-> 0, out |-> << >>, err |-> Nil, done |-> FALSE,
                   final |-> FALSE, inblock |-> FALSE, fixed |-> FALSE,
                   hl |-> fixedHuffmanDecoder, hd |-> fixedHuffmanDecoder],
               NBits(c) + 1)

-----------------------------------------------------------------------------
(* File.Open and ioutil.ReadAll on the reader it returns.                  *)

\* findBodyOffset once the 30 bytes buf of the local header are read: they
\* must start with the signature PK 03 04
bodyOffsetOf(buf) ==
    IF SubSeq(buf, 1, 4) # MagicPK THEN [err |-> ErrFormat]
    ELSE [err |-> Nil, bodyOffset |-> 30 + LE16(buf, 26) + LE16(buf, 28)]

\* findBodyOffset: the local header must be in the region
findBodyOffset(s, f) ==
    IF IsNeg64(f.headerOffset)
    THEN [err |-> "bytes.Reader.ReadAt: negative offset"]
    ELSE IF ~InRange64(f.headerOffset, LenB(s) - 29) THEN [err |-> ErrEOF]
    ELSE bodyOffsetOf(Bytes(Slice(s, AsInt(f.headerOffset),
                                  AsInt(f.headerOffset) + 30)))

\* io.NewSectionReader(f.zipr, start, size): the bytes of it in the region.
\* For a size below 0 the test off <= maxint64-n fails on the wrapped
\* difference and the section is given the limit maxint64, as for a size
\* that runs past the end: it is read to the end of the region
zipSection(s, start, size) ==
    IF start >= LenB(s) THEN Slice(s, 0, 0)
    ELSE IF InRange64(size, LenB(s) - start) THEN Slice(s, start, start + AsInt(size))
    ELSE SliceFrom(s, start)

\* the decompressor of the method, read to its end
decompressed(method, c) ==
    IF method = 0
    THEN [err |-> Nil, out |-> c]
    ELSE inflate(c)

\* readDataDescriptor on the bytes b that follow the member's data, 16 of
\* them at most
dataDescriptor(f, b) ==
    IF Len(b) < 4 THEN ErrUnexpectedEOF
    ELSE IF SubSeq(b, 1, 4) = <<80, 75, 7, 8>>
    THEN IF Len(b) < 16 THEN ErrUnexpectedEOF
         ELSE IF SubSeq(b, 5, 8) # f.CRC32 THEN ErrChecksum
         ELSE Nil
    ELSE IF Len(b) < 12 THEN ErrUnexpectedEOF
         ELSE IF SubSeq(b, 1, 4) # f.CRC32 THEN ErrChecksum
         ELSE Nil

\* readDataDescriptor on the section of 16 bytes after the member's data, at
\* dd; a dd below 0 is refused by bytes.Reader.ReadAt
readDataDescriptor(s, f, dd) ==
    IF IsNeg64(dd) THEN "bytes.Reader.ReadAt: negative offset"
    ELSE IF ~InRange64(dd, LenB(s)) THEN ErrUnexpectedEOF
    ELSE dataDescriptor(f, Bytes(zipSection(s, AsInt(dd), I64(16))))

\* checksumReader.Read after the data descriptor is read with answer err1
descriptorChecked(f, err1, sum) ==
    IF err1 # Nil THEN err1
    ELSE IF sum # f.CRC32 THEN ErrChecksum
    ELSE Nil

\* checksumReader.Read at the end of the data, for its checksum sum
checksumAtEOF(s, f, dd, sum) ==
    IF (f.Flags \div 8) % 2 = 1
    THEN descriptorChecked(f, readDataDescriptor(s, f, dd), sum)
    ELSE IF f.CRC32 # <<0, 0, 0, 0>> /\ sum # f.CRC32 THEN ErrChecksum
    ELSE Nil

\* the answer of ReadAll, once its error is known
readAllResult(err, out) ==
    IF err # Nil THEN [err |-> err] ELSE [err |-> Nil, Body |-> MemSlice(out)]

\* ioutil.ReadAll on the checksumReader over the decompressor's answer d:
\* more bytes than UncompressedSize64 are ErrFormat, fewer ErrUnexpectedEOF
checksumRead(s, f, start, d) ==
    IF InRange64(f.UncompressedSize64, Len(d.out)) THEN [err |-> ErrFormat]
    ELSE IF d.err # Nil THEN [err |-> d.err]
    ELSE IF f.UncompressedSize64 # I64(Len(d.out)) THEN [err |-> ErrUnexpectedEOF]
    ELSE readAllResult(checksumAtEOF(s, f, Add64(I64(start), f.CompressedSize64),
                                     ChecksumIEEE(d.out)),
                       d.out)

\* File.Open after findBodyOffset, and ReadAll
zipOpened(s, f, b) ==
    IF b.err # Nil THEN [err |-> b.err]
    ELSE IF f.Method \notin {0, 8} THEN [err |-> ErrAlgorithm]
    ELSE checksumRead(s, f, AsInt(f.headerOffset) + b.bodyOffset,
             decompressed(f.Method,
                 Bytes(zipSection(s, AsInt(f.headerOffset) + b.bodyOffset,
                                  f.CompressedSize64))))

\* rc, err := file.Open(); data, err := ioutil.ReadAll(rc)
zipReadAll(s, f) == zipOpened(s, f, findBodyOffset(s, f))

-----------------------------------------------------------------------------
(* The directory end.                                                      *)

\* findDirectory64End once the 20 bytes b of the locator are read
directory64Loc(b) ==
    IF SubSeq(b, 1, 4) # <<80, 75, 6, 7>> THEN Neg64(I64(1))
    ELSE IF U32At(b, 4) # I64(0) THEN Neg64(I64(1))
    ELSE IF U32At(b, 16) # I64(1) THEN Neg64(I64(1))
    ELSE U64At(b, 8)

\* findDirectory64End: the offset the zip64 locator before the record at e
\* gives, -1 when there is no locator
findDirectory64End(data, e) ==
    IF e - 20 < 0 THEN Neg64(I64(1))
    ELSE directory64Loc(Bytes(Slice(data, e - 20, e)))

\* readDirectory64End once the 56 bytes b of the record at p are read
directory64EndOf(d, p, b) ==
    IF SubSeq(b, 1, 4) # <<80, 75, 6, 6>> THEN [d EXCEPT !.err = ErrFormat]
    ELSE [d EXCEPT !.directoryRecords = U64At(b, 32),
                   !.directorySize = U64At(b, 40),
                   !.directoryOffset = U64At(b, 48),
                   !.directoryEndOffset = p]

\* readDirectory64End for the zip64 record at p
readDirectory64End(data, d, p) ==
    IF ~InRange64(p, LenB(data) - 55) THEN [d EXCEPT !.err = ErrEOF]
    ELSE directory64EndOf(d, p, Bytes(Slice(data, AsInt(p), AsInt(p) + 56)))

\* the zip64 part of readDirectoryEnd, for the answer p of findDirectory64End
directoryEnd64(data, d, p) ==
    IF IsNeg64(p) THEN d ELSE readDirectory64End(data, d, p)

\* the values of the directory end that mean that the file can be zip64
maybeZip64(d) ==
    \/ d.directoryRecords = I64(65535)
    \/ d.directorySize = I64(65535)
    \/ d.directoryOffset = <<65535, 65535, 0, 0>>

\* the directory end the 22 bytes buf of the record at e give
directoryEndOf(buf, e) ==
    [err |-> Nil,
     directoryRecords |-> U16At(buf, 10),
     directorySize |-> U32At(buf, 12),
     directoryOffset |-> U32At(buf, 16),
     directoryEndOffset |-> I64(e)]

\* readDirectoryEnd for the directory end d read at e
directoryEndRead(data, e, d) ==
    IF maybeZip64(d) THEN directoryEnd64(data, d, findDirectory64End(data, e))
    ELSE d

\* readDirectoryEnd after the search, for the record found at e
readDirectoryEnd(data, e) ==
    directoryEndRead(data, e, directoryEndOf(Bytes(Slice(data, e, e + 22)), e))

\* the base offset of Reader.init: a base offset above zero is dropped when
\* a valid directory header is found at directoryOffset itself
baseOffsetKept(data, d, baseOffset) ==
    IF ~IsNeg64(baseOffset) /\ baseOffset # I64(0)
          /\ readDirectoryHeader(data, AsInt(d.directoryOffset)).err = Nil
    THEN I64(0)
    ELSE baseOffset

\* Reader.init from the seek to the directory on
zipSeek(data, d, baseOffset) ==
    zipInit(data, d.directoryRecords[1],
            AsInt(Add64(baseOffset, d.directoryOffset)), baseOffset)

\* the rest of readDirectoryEnd and Reader.init, for the base offset the
\* directory end gives
zipBased(data, d, baseOffset) ==
    IF ~InRange64(Add64(baseOffset, d.directoryOffset), LenB(data))
    THEN [err |-> ErrFormat, File |-> << >>]
    ELSE zipSeek(data, d, baseOffsetKept(data, d, baseOffset))

\* the reader for the directory end d
zipDirectory(data, d) ==
    IF d.err # Nil THEN [err |-> d.err, File |-> << >>]
    ELSE IF IsNeg64(d.directorySize) \/ IsNeg64(d.directoryOffset)
    THEN [err |-> ErrFormat, File |-> << >>]
    ELSE zipBased(data, d,
                  Sub64(Sub64(d.directoryEndOffset, d.directorySize),
                        d.directoryOffset))

\* the reader for a region whose end-of-central-directory record is at e
zipReaderAt(data, e) ==
    IF e = -1 THEN [err |-> ErrFormat, File |-> << >>]
    ELSE zipDirectory(data, readDirectoryEnd(data, e))

\* zip.NewReader(bytes.NewReader(data), int64(len(data)))
zipNewReader(data) == zipReaderAt(data, findDirectoryEnd(data))

-----------------------------------------------------------------------------
(* unicode/utf8, unicode and strings of the Go library.  A Go string is    *)
(* given as the tuple of its bytes; a rune is its code point.              *)

\* b[i] is a continuation byte
utf8Cont(b, i) == i <= Len(b) /\ b[i] >= 128 /\ b[i] <= 191

\* the second bytes an encoding that starts with c may have (acceptRanges)
utf8Accepts(c, c1) ==
    CASE c = 224 -> c1 \in 160..191
      [] c = 237 -> c1 \in 128..159
      [] c = 240 -> c1 \in 144..191
      [] c = 244 -> c1 \in 128..143
      [] OTHER -> c1 \in 128..191

\* the length of the encoding that the byte c starts, 0 if it starts none
utf8Need(c) ==
    IF c < 128 THEN 1
    ELSE IF c \in 194..223 THEN 2
    ELSE IF c \in 224..239 THEN 3
    ELSE IF c \in 240..244 THEN 4
    ELSE 0

\* the size utf8.DecodeRune gives for a valid encoding at b[i], 0 where it
\* gives (RuneError, 1)
utf8Width(b, i) ==
    LET w == utf8Need(b[i])
    IN  IF w <= 1 THEN w
        ELSE IF /\ i + w - 1 <= Len(b)
                /\ utf8Accepts(b[i], b[i + 1])
                /\ \A k \in 2..(w - 1) : utf8Cont(b, i + k)
             THEN w
             ELSE 0

\* the rune utf8.DecodeRune gives at b[i] for the width w of utf8Width
utf8Rune(b, i, w) ==
    CASE w = 1 -> b[i]
      [] w = 2 -> (b[i] % 32) * 64 + (b[i + 1] % 64)
      [] w = 3 -> (b[i] % 16) * 4096 + (b[i + 1] % 64) * 64 + (b[i + 2] % 64)
      [] w = 4 -> (b[i] % 8) * 262144 + (b[i + 1] % 64) * 4096
                     + (b[i + 2] % 64) * 64 + (b[i + 3] % 64)
      [] OTHER -> 65533

\* the runes of `for _, c := range s` from b[i] on: a byte that starts no
\* encoding is the rune U+FFFD of width 1
RECURSIVE utf8Runes(_, _)
utf8Runes(b, i) ==
    IF i > Len(b) THEN << >>
    ELSE <<utf8Rune(b, i, utf8Width(b, i))>>
            \o utf8Runes(b, i + (IF utf8Width(b, i) = 0 THEN 1 ELSE utf8Width(b, i)))

\* b[i] lies inside an encoding that starts before it
utf8Covered(b, i) ==
    \E k \in 1..3 : i - k >= 1 /\ utf8Width(b, i - k) > k

\* utf8.EncodeRune, string(rune(r)): a surrogate or a value past
\* unicode.MaxRune is written as U+FFFD
utf8Encode(r) ==
    IF r < 128 THEN <<r>>
    ELSE IF r < 2048 THEN <<192 + (r \div 64), 128 + (r % 64)>>
    ELSE IF r \in 55296..57343 \/ r > 1114111 THEN <<239, 191, 189>>
    ELSE IF r < 65536
    THEN <<224 + (r \div 4096), 128 + ((r \div 64) % 64), 128 + (r % 64)>>
    ELSE <<240 + (r \div 262144), 128 + ((r \div 4096) % 64),
           128 + ((r \div 64) % 64), 128 + (r % 64)>>

\* the encodings of the runes rs[lo..hi], one after the other
RECURSIVE utf8String(_, _, _)
utf8String(rs, lo, hi) ==
    IF lo > hi THEN << >>
    ELSE IF lo = hi THEN utf8Encode(rs[lo])
    ELSE utf8String(rs, lo, (lo + hi) \div 2)
            \o utf8String(rs, (lo + hi) \div 2 + 1, hi)

\* the lower-case mappings of unicode.CaseRanges (Unicode 14.0.0): a rune r
\* of lo..hi with (r - lo) a multiple of step maps to r + delta
LowerRanges ==
  <<
    <<65, 90, 1, 32>>, <<192, 214, 1, 32>>, <<216, 222, 1, 32>>,
    <<256, 302, 2, 1>>, <<304, 304, 1, -199>>, <<306, 310, 2, 1>>,
    <<313, 327, 2, 1>>, <<330, 374, 2, 1>>, <<376, 376, 1, -121>>,
    <<377, 381, 2, 1>>, <<385, 385, 1, 210>>, <<386, 388, 2, 1>>,
    <<390, 390, 1, 206>>, <<391, 391, 1, 1>>, <<393, 394, 1, 205>>,
    <<395, 395, 1, 1>>, <<398, 398, 1, 79>>, <<399, 399, 1, 202>>,
    <<400, 400, 1, 203>>, <<401, 401, 1, 1>>, <<403, 403, 1, 205>>,
    <<404, 404, 1, 207>>, <<406, 406, 1, 211>>, <<407, 407, 1, 209>>,
    <<408, 408, 1, 1>>, <<412, 412, 1, 211>>, <<413, 413, 1, 213>>,
    <<415, 415, 1, 214>>, <<416, 420, 2, 1>>, <<422, 422, 1, 218>>,
    <<423, 423, 1, 1>>, <<425, 425, 1, 218>>, <<428, 428, 1, 1>>,
    <<430, 430, 1, 218>>, <<431, 431, 1, 1>>, <<433, 434, 1, 217>>,
    <<435, 437, 2, 1>>, <<439, 439, 1, 219>>, <<440, 440, 1, 1>>,
    <<444, 444, 1, 1>>, <<452, 452, 1, 2>>, <<453, 453, 1, 1>>,
    <<455, 455, 1, 2>>, <<456, 456, 1, 1>>, <<458, 458, 1, 2>>,
    <<459, 475, 2, 1>>, <<478, 494, 2, 1>>, <<497, 497, 1, 2>>,
    <<498, 500, 2, 1>>, <<502, 502, 1, -97>>, <<503, 503, 1, -56>>,
    <<504, 542, 2, 1>>, <<544, 544, 1, -130>>, <<546, 562, 2, 1>>,
    <<570, 570, 1, 10795>>, <<571, 571, 1, 1>>, <<573, 573, 1, -163>>,
    <<574, 574, 1, 10792>>, <<577, 577, 1, 1>>, <<579, 579, 1, -195>>,
    <<580, 580, 1, 69>>, <<581, 581, 1, 71>>, <<582, 590, 2, 1>>,
    <<880, 882, 2, 1>>, <<886, 886, 1, 1>>, <<895, 895, 1, 116>>,
    <<902, 902, 1, 38>>, <<904, 906, 1, 37>>, <<908, 908, 1, 64>>,
    <<910, 911, 1, 63>>, <<913, 929, 1, 32>>, <<931, 939, 1, 32>>,
    <<975, 975, 1, 8>>, <<984, 1006, 2, 1>>, <<1012, 1012, 1, -60>>,
    <<1015, 1015, 1, 1>>, <<1017, 1017, 1, -7>>, <<1018, 1018, 1, 1>>,
    <<1021, 1023, 1, -130>>, <<1024, 1039, 1, 80>>, <<1040, 1071, 1, 32>>,
    <<1120, 1152, 2, 1>>, <<1162, 1214, 2, 1>>, <<1216, 1216, 1, 15>>,
    <<1217, 1229, 2, 1>>, <<1232, 1326, 2, 1>>, <<1329, 1366, 1, 48>>,
    <<4256, 4293, 1, 7264>>, <<4295, 4295, 1, 7264>>, <<4301, 4301, 1, 7264>>,
    <<5024, 5103, 1, 38864>>, <<5104, 5109, 1, 8>>, <<7312, 7354, 1, -3008>>,
    <<7357, 7359, 1, -3008>>, <<7680, 7828, 2, 1>>, <<7838, 7838, 1, -7615>>,
    <<7840, 7934, 2, 1>>, <<7944, 7951, 1, -8>>, <<7960, 7965, 1, -8>>,
    <<7976, 7983, 1, -8>>, <<7992, 7999, 1, -8>>, <<8008, 8013, 1, -8>>,
    <<8025, 8031, 2, -8>>, <<8040, 8047, 1, -8>>, <<8072, 8079, 1, -8>>,
    <<8088, 8095, 1, -8>>, <<8104, 8111, 1, -8>>, <<8120, 8121, 1, -8>>,
    <<8122, 8123, 1, -74>>, <<8124, 8124, 1, -9>>, <<8136, 8139, 1, -86>>,
    <<8140, 8140, 1, -9>>, <<8152, 8153, 1, -8>>, <<8154, 8155, 1, -100>>,
    <<8168, 8169, 1, -8>>, <<8170, 8171, 1, -112>>, <<8172, 8172, 1, -7>>,
    <<8184, 8185, 1, -128>>, <<8186, 8187, 1, -126>>, <<8188, 8188, 1, -9>>,
    <<8486, 8486, 1, -7517>>, <<8490, 8490, 1, -8383>>,
    <<8491, 8491, 1, -8262>>, <<8498, 8498, 1, 28>>, <<8544, 8559, 1, 16>>,
    <<8579, 8579, 1, 1>>, <<9398, 9423, 1, 26>>, <<11264, 11311, 1, 48>>,
    <<11360, 11360, 1, 1>>, <<11362, 11362, 1, -10743>>,
    <<11363, 11363, 1, -3814>>, <<11364, 11364, 1, -10727>>,
    <<11367, 11371, 2, 1>>, <<11373, 11373, 1, -10780>>,
    <<11374, 11374, 1, -10749>>, <<11375, 11375, 1, -10783>>,
    <<11376, 11376, 1, -10782>>, <<11378, 11378, 1, 1>>,
    <<11381, 11381, 1, 1>>, <<11390, 11391, 1, -10815>>,
    <<11392, 11490, 2, 1>>, <<11499, 11501, 2, 1>>, <<11506, 11506, 1, 1>>,
    <<42560, 42604, 2, 1>>, <<42624, 42650, 2, 1>>, <<42786, 42798, 2, 1>>,
    <<42802, 42862, 2, 1>>, <<42873, 42875, 2, 1>>,
    <<42877, 42877, 1, -35332>>, <<42878, 42886, 2, 1>>,
    <<42891, 42891, 1, 1>>, <<42893, 42893, 1, -42280>>,
    <<42896, 42898, 2, 1>>, <<42902, 42920, 2, 1>>,
    <<42922, 42922, 1, -42308>>, <<42923, 42923, 1, -42319>>,
    <<42924, 42924, 1, -42315>>, <<42925, 42925, 1, -42305>>,
    <<42926, 42926, 1, -42308>>, <<42928, 42928, 1, -42258>>,
    <<42929, 42929, 1, -42282>>, <<42930, 42930, 1, -42261>>,
    <<42931, 42931, 1, 928>>, <<42932, 42946, 2, 1>>,
    <<42948, 42948, 1, -48>>, <<42949, 42949, 1, -42307>>,
    <<42950, 42950, 1, -35384>>, <<42951, 42953, 2, 1>>,
    <<42960, 42960, 1, 1>>, <<42966, 42968, 2, 1>>, <<42997, 42997, 1, 1>>,
    <<65313, 65338, 1, 32>>, <<66560, 66599, 1, 40>>, <<66736, 66771, 1, 40>>,
    <<66928, 66938, 1, 39>>, <<66940, 66954, 1, 39>>, <<66956, 66962, 1, 39>>,
    <<66964, 66965, 1, 39>>, <<68736, 68786, 1, 64>>, <<71840, 71871, 1, 32>>,
    <<93760, 93791, 1, 32>>, <<125184, 125217, 1, 34>>
  >>

\* unicode.ToLower
unicodeToLower(r) ==
    LET hit == {k \in 1..Len(LowerRanges) :
                  /\ LowerRanges[k][1] <= r
                  /\ r <= LowerRanges[k][2]
                  /\ (r - LowerRanges[k][1]) % LowerRanges[k][3] = 0}
    IN  IF hit = {} THEN r ELSE r + LowerRanges[SetMin(hit)][4]

\* strings.ToLower: on ASCII text the letters A-Z are lowered; a string
\* with a byte of 128 or more goes through strings.Map, which writes the
\* lowered runes and U+FFFD for each byte that starts no encoding
StringsToLower(str) ==
    LET rs == utf8Runes(str, 1)
    IN  utf8String([i \in 1..Len(rs) |-> unicodeToLower(rs[i])], 1, Len(rs))

\* unicode.IsSpace
IsSpace(r) ==
    \/ r \in 9..13
    \/ r \in {32, 133, 160, 5760, 8232, 8233, 8239, 8287, 12288}
    \/ r \in 8192..8202

\* strings.TrimSpace on valid UTF-8, as strings.ToLower returns it
TrimSpace(str) ==
    LET rs == utf8Runes(str, 1)
        kept == {i \in 1..Len(rs) : ~IsSpace(rs[i])}
    IN  IF kept = {} THEN << >>
        ELSE utf8String(rs, SetMin(kept), SetMax(kept))

\* strings.Split(str, ","): the fields between the commas, in order
StringsSplit(str) ==
    LET commas == {i \in 1..Len(str) : str[i] = 44}
        starts == {1} \cup {i + 1 : i \in commas}
        EndOf(st) == SetMin({i \in commas \cup {Len(str) + 1} : i >= st}) - 1
        RECURSIVE Fields(_)
        Fields(S) == IF S = {} THEN << >>
                     ELSE LET st == SetMin(S)
                          IN  << SubSeq(str, st, EndOf(st)) >> \o Fields(S \ {st})
    IN  Fields(starts)

\* the characters of the bytes 32..126, the backquote in the way StringOf
\* writes a byte outside of them
AsciiChars ==
    <<" ", "!", "\"", "#", "$", "%", "&", "'", "(", ")", "*", "+", ",", "-",
      ".", "/", "0", "1", "2", "3", "4", "5", "6", "7", "8", "9", ":", ";",
      "<", "=", ">", "?", "@", "A", "B", "C", "D", "E", "F", "G", "H", "I",
      "J", "K", "L", "M", "N", "O", "P", "Q", "R", "S", "T", "U", "V", "W",
      "X", "Y", "Z", "[", "\\", "]", "^", "_", "\\x60", "a", "b", "c", "d", "e",
      "f", "g", "h", "i", "j", "k", "l", "m", "n", "o", "p", "q", "r", "s",
      "t", "u", "v", "w", "x", "y", "z", "{", "|", "}", "~">>

\* the string with the given bytes.  A byte outside 32..126 is written
\* \xhh and the backslash doubled, so that different byte strings are
\* different strings here as they are in Go
StringOfByte(c) ==
    IF c = 92 THEN "\\\\"
    ELSE IF c \in 32..126 THEN AsciiChars[c - 31]
    ELSE "\\x" \o AsciiChars[(IF c \div 16 < 10 THEN 17 ELSE 56) + (c \div 16)]
               \o AsciiChars[(IF c % 16 < 10 THEN 17 ELSE 56) + (c % 16)]

RECURSIVE StringOf(_)
StringOf(str) ==
    IF str = << >> THEN "" ELSE StringOfByte(Head(str)) \o StringOf(Tail(str))

-----------------------------------------------------------------------------
(* encoding/xml of the Go library, as xml.Unmarshal uses it on the bytes   *)
(* b of a member: a Decoder in strict mode without CharsetReader or        *)
(* Entity map.  Positions count from 1, p being the next byte to read; an  *)
(* error is the Msg of the SyntaxError, without its line.                  *)

\* the name start characters of xml.go
first ==
  <<
    <<58, 58>>, <<65, 90>>, <<95, 95>>, <<97, 122>>, <<192, 214>>,
    <<216, 246>>, <<248, 305>>, <<308, 318>>, <<321, 328>>, <<330, 382>>,
    <<384, 451>>, <<461, 496>>, <<500, 501>>, <<506, 535>>, <<592, 680>>,
    <<699, 705>>, <<902, 902>>, <<904, 906>>, <<908, 908>>, <<910, 929>>,
    <<931, 974>>, <<976, 982>>, <<986, 986>>, <<988, 988>>, <<990, 990>>,
    <<992, 992>>, <<994, 1011>>, <<1025, 1036>>, <<1038, 1103>>,
    <<1105, 1116>>, <<1118, 1153>>, <<1168, 1220>>, <<1223, 1224>>,
    <<1227, 1228>>, <<1232, 1259>>, <<1262, 1269>>, <<1272, 1273>>,
    <<1329, 1366>>, <<1369, 1369>>, <<1377, 1414>>, <<1488, 1514>>,
    <<1520, 1522>>, <<1569, 1594>>, <<1601, 1610>>, <<1649, 1719>>,
    <<1722, 1726>>, <<1728, 1742>>, <<1744, 1747>>, <<1749, 1749>>,
    <<1765, 1766>>, <<2309, 2361>>, <<2365, 2365>>, <<2392, 2401>>,
    <<2437, 2444>>, <<2447, 2448>>, <<2451, 2472>>, <<2474, 2480>>,
    <<2482, 2482>>, <<2486, 2489>>, <<2524, 2525>>, <<2527, 2529>>,
    <<2544, 2545>>, <<2565, 2570>>, <<2575, 2576>>, <<2579, 2600>>,
    <<2602, 2608>>, <<2610, 2611>>, <<2613, 2614>>, <<2616, 2617>>,
    <<2649, 2652>>, <<2654, 2654>>, <<2674, 2676>>, <<2693, 2699>>,
    <<2701, 2701>>, <<2703, 2705>>, <<2707, 2728>>, <<2730, 2736>>,
    <<2738, 2739>>, <<2741, 2745>>, <<2749, 2749>>, <<2784, 2784>>,
    <<2821, 2828>>, <<2831, 2832>>, <<2835, 2856>>, <<2858, 2864>>,
    <<2866, 2867>>, <<2870, 2873>>, <<2877, 2877>>, <<2908, 2909>>,
    <<2911, 2913>>, <<2949, 2954>>, <<2958, 2960>>, <<2962, 2965>>,
    <<2969, 2970>>, <<2972, 2972>>, <<2974, 2975>>, <<2979, 2980>>,
    <<2984, 2986>>, <<2990, 2997>>, <<2999, 3001>>, <<3077, 3084>>,
    <<3086, 3088>>, <<3090, 3112>>, <<3114, 3123>>, <<3125, 3129>>,
    <<3168, 3169>>, <<3205, 3212>>, <<3214, 3216>>, <<3218, 3240>>,
    <<3242, 3251>>, <<3253, 3257>>, <<3294, 3294>>, <<3296, 3297>>,
    <<3333, 3340>>, <<3342, 3344>>, <<3346, 3368>>, <<3370, 3385>>,
    <<3424, 3425>>, <<3585, 3630>>, <<3632, 3632>>, <<3634, 3635>>,
    <<3648, 3653>>, <<3713, 3714>>, <<3716, 3716>>, <<3719, 3720>>,
    <<3722, 3722>>, <<3725, 3725>>, <<3732, 3735>>, <<3737, 3743>>,
    <<3745, 3747>>, <<3749, 3749>>, <<3751, 3751>>, <<3754, 3755>>,
    <<3757, 3758>>, <<3760, 3760>>, <<3762, 3763>>, <<3773, 3773>>,
    <<3776, 3780>>, <<3904, 3911>>, <<3913, 3945>>, <<4256, 4293>>,
    <<4304, 4342>>, <<4352, 4352>>, <<4354, 4355>>, <<4357, 4359>>,
    <<4361, 4361>>, <<4363, 4364>>, <<4366, 4370>>, <<4412, 4412>>,
    <<4414, 4414>>, <<4416, 4416>>, <<4428, 4428>>, <<4430, 4430>>,
    <<4432, 4432>>, <<4436, 4437>>, <<4441, 4441>>, <<4447, 4449>>,
    <<4451, 4451>>, <<4453, 4453>>, <<4455, 4455>>, <<4457, 4457>>,
    <<4461, 4462>>, <<4466, 4467>>, <<4469, 4469>>, <<4510, 4510>>,
    <<4520, 4520>>, <<4523, 4523>>, <<4526, 4527>>, <<4535, 4536>>,
    <<4538, 4538>>, <<4540, 4546>>, <<4587, 4587>>, <<4592, 4592>>,
    <<4601, 4601>>, <<7680, 7835>>, <<7840, 7929>>, <<7936, 7957>>,
    <<7960, 7965>>, <<7968, 8005>>, <<8008, 8013>>, <<8016, 8023>>,
    <<8025, 8025>>, <<8027, 8027>>, <<8029, 8029>>, <<8031, 8061>>,
    <<8064, 8116>>, <<8118, 8124>>, <<8126, 8126>>, <<8130, 8132>>,
    <<8134, 8140>>, <<8144, 8147>>, <<8150, 8155>>, <<8160, 8172>>,
    <<8178, 8180>>, <<8182, 8188>>, <<8486, 8486>>, <<8490, 8491>>,
    <<8494, 8494>>, <<8576, 8578>>, <<12295, 12295>>, <<12321, 12329>>,
    <<12353, 12436>>, <<12449, 12538>>, <<12549, 12588>>, <<19968, 40869>>,
    <<44032, 55203>>
  >>

\* the further name characters of xml.go
second ==
  <<
    <<45, 46>>, <<48, 57>>, <<183, 183>>, <<720, 721>>, <<768, 837>>,
    <<864, 865>>, <<903, 903>>, <<1155, 1158>>, <<1425, 1441>>,
    <<1443, 1465>>, <<1467, 1469>>, <<1471, 1471>>, <<1473, 1474>>,
    <<1476, 1476>>, <<1600, 1600>>, <<1611, 1618>>, <<1632, 1641>>,
    <<1648, 1648>>, <<1750, 1764>>, <<1767, 1768>>, <<1770, 1773>>,
    <<1776, 1785>>, <<2305, 2307>>, <<2364, 2364>>, <<2366, 2381>>,
    <<2385, 2388>>, <<2402, 2403>>, <<2406, 2415>>, <<2433, 2435>>,
    <<2492, 2492>>, <<2494, 2500>>, <<2503, 2504>>, <<2507, 2509>>,
    <<2519, 2519>>, <<2530, 2531>>, <<2534, 2543>>, <<2562, 2562>>,
    <<2620, 2620>>, <<2622, 2626>>, <<2631, 2632>>, <<2635, 2637>>,
    <<2662, 2673>>, <<2689, 2691>>, <<2748, 2748>>, <<2750, 2757>>,
    <<2759, 2761>>, <<2763, 2765>>, <<2790, 2799>>, <<2817, 2819>>,
    <<2876, 2876>>, <<2878, 2883>>, <<2887, 2888>>, <<2891, 2893>>,
    <<2902, 2903>>, <<2918, 2927>>, <<2946, 2947>>, <<3006, 3010>>,
    <<3014, 3016>>, <<3018, 3021>>, <<3031, 3031>>, <<3047, 3055>>,
    <<3073, 3075>>, <<3134, 3140>>, <<3142, 3144>>, <<3146, 3149>>,
    <<3157, 3158>>, <<3174, 3183>>, <<3202, 3203>>, <<3262, 3268>>,
    <<3270, 3272>>, <<3274, 3277>>, <<3285, 3286>>, <<3302, 3311>>,
    <<3330, 3331>>, <<3390, 3395>>, <<3398, 3400>>, <<3402, 3405>>,
    <<3415, 3415>>, <<3430, 3439>>, <<3633, 3633>>, <<3636, 3642>>,
    <<3654, 3662>>, <<3664, 3673>>, <<3761, 3761>>, <<3764, 3769>>,
    <<3771, 3772>>, <<3782, 3782>>, <<3784, 3789>>, <<3792, 3801>>,
    <<3864, 3865>>, <<3872, 3881>>, <<3893, 3893>>, <<3895, 3895>>,
    <<3897, 3897>>, <<3902, 3903>>, <<3953, 3972>>, <<3974, 3979>>,
    <<3984, 3989>>, <<3991, 3991>>, <<3993, 4013>>, <<4017, 4023>>,
    <<4025, 4025>>, <<8400, 8412>>, <<8417, 8417>>, <<12293, 12293>>,
    <<12330, 12335>>, <<12337, 12341>>, <<12441, 12442>>, <<12445, 12446>>,
    <<12540, 12542>>
  >>

\* unicode.Is(tab, r)
unicodeIs(tab, r) == \E k \in 1..Len(tab) : tab[k][1] <= r /\ r <= tab[k][2]

isNameByte(c) ==
    \/ c \in 65..90 \/ c \in 97..122 \/ c \in 48..57
    \/ c \in {95, 58, 46, 45}

\* isName: the runes of s are name characters, the first a name start
isName(s) ==
    /\ Len(s) > 0
    /\ \A i \in 1..Len(s) :
          \/ utf8Covered(s, i)
          \/ /\ utf8Width(s, i) > 0
             /\ \E r \in {utf8Rune(s, i, utf8Width(s, i))} :
                    \/ unicodeIs(first, r)
                    \/ i > 1 /\ unicodeIs(second, r)

\* isInCharacterRange
isInCharacterRange(r) ==
    \/ r \in {9, 10, 13}
    \/ r \in 32..55295
    \/ r \in 57344..65533
    \/ r \in 65536..1114111

\* the first index from p on where pat lies in b, 0 if there is none
IndexFrom(b, p, pat) ==
    LET occ == {q \in p..(Len(b) - Len(pat) + 1) :
                  \A j \in 1..Len(pat) : b[q + j - 1] = pat[j]}
    IN  IF occ = {} THEN 0 ELSE SetMin(occ)

\* d.space(): the first index from p on that holds no blank
spaceEnd(b, p) ==
    SetMin({q \in p..(Len(b) + 1) : q > Len(b) \/ b[q] \notin {32, 13, 10, 9}})

\* d.readName(): the first index from p on that holds an ASCII byte which
\* is no name byte
nameEnd(b, p) ==
    SetMin({q \in p..(Len(b) + 1) :
              q > Len(b) \/ (b[q] < 128 /\ ~isNameByte(b[q]))})

\* d.name() at p, the name ending before e: err is nil where the source
\* leaves d.err unset
nameRead(b, p, e) ==
    IF e > Len(b) THEN [ok |-> FALSE, err |-> ErrUnexpectedEOF]
    ELSE IF e = p THEN [ok |-> FALSE, err |-> Nil]
    ELSE IF ~isName(SubSeq(b, p, e - 1))
    THEN [ok |-> FALSE,
          err |-> "invalid XML name: " \o StringOf(SubSeq(b, p, e - 1))]
    ELSE [ok |-> TRUE, err |-> Nil, s |-> SubSeq(b, p, e - 1), p |-> e]

name(b, p) == nameRead(b, p, nameEnd(b, p))

\* d.nsname(): a name with more than one colon is refused
nsname(b, p) ==
    LET nm == name(b, p)
    IN  IF nm.ok /\ Cardinality({i \in 1..Len(nm.s) : nm.s[i] = 58}) > 1
        THEN [ok |-> FALSE, err |-> Nil]
        ELSE nm

\* Name.Local of the name nsname makes of s: the part after the colon if
\* both parts are non-empty
Local(s) ==
    LET colon == {i \in 1..Len(s) : s[i] = 58}
    IN  IF colon = {} \/ SetMin(colon) = 1 \/ SetMin(colon) = Len(s) THEN s
        ELSE SubSeq(s, SetMin(colon) + 1, Len(s))

\* Name.Space of the same
Space(s) ==
    LET colon == {i \in 1..Len(s) : s[i] = 58}
    IN  IF colon = {} \/ SetMin(colon) = 1 \/ SetMin(colon) = Len(s) THEN << >>
        ELSE SubSeq(s, 1, SetMin(colon) - 1)

\* the message for an answer nm of name or nsname that is not ok
nameError(nm, msg) == [err |-> IF nm.err = Nil THEN msg ELSE nm.err]

\* the digits of a character reference: their value, -1 if there is none
\* or it is past unicode.MaxRune (strconv.ParseUint and the test n <=
\* unicode.MaxRune)
RECURSIVE referenceValue(_, _, _)
referenceValue(ds, base, acc) ==
    IF acc = -1 THEN -1
    ELSE IF ds = << >> THEN acc
    ELSE referenceValue(Tail(ds), base,
             LET c == Head(ds)
                 v == IF c \in 48..57 THEN c - 48
                      ELSE IF c \in 97..102 THEN c - 87
                      ELSE c - 55
             IN  IF acc * base + v > 1114111 THEN -1 ELSE acc * base + v)

\* the entity names the Decoder knows, with the bytes they stand for
entity ==
    << <<<<108, 116, 59>>, <<60>>>>, <<<<103, 116, 59>>, <<62>>>>,
       <<<<97, 109, 112, 59>>, <<38>>>>, <<<<97, 112, 111, 115, 59>>, <<39>>>>,
       <<<<113, 117, 111, 116, 59>>, <<34>>>> >>

\* the bytes b[lo..hi], for an error message
entityText(b, lo, hi) == StringOf(SubSeq(b, lo, hi))

\* the character reference &#...; or &#x...; whose digits start at s and
\* end before t
numericEntity(b, a, s, t, base) ==
    IF t > Len(b) THEN [err |-> ErrUnexpectedEOF]
    ELSE IF b[t] # 59
    THEN [err |-> "invalid character entity " \o entityText(b, a, t - 1)
                     \o " (no semicolon)"]
    ELSE IF s = t \/ referenceValue(SubSeq(b, s, t - 1), base, 0) = -1
    THEN [err |-> "invalid character entity " \o entityText(b, a, t)]
    ELSE [err |-> Nil, end |-> t,
          text |-> utf8Encode(referenceValue(SubSeq(b, s, t - 1), base, 0))]

\* the named entity after the & at a, its name ending before e
namedEntity(b, a, e) ==
    IF e > Len(b) THEN [err |-> ErrUnexpectedEOF]
    ELSE IF b[e] # 59
    THEN [err |-> "invalid character entity " \o entityText(b, a, e - 1)
                     \o " (no semicolon)"]
    ELSE LET known == {k \in 1..Len(entity) : entity[k][1] = SubSeq(b, a + 1, e)}
         IN  IF known = {}
             THEN [err |-> "invalid character entity " \o entityText(b, a, e)]
             ELSE [err |-> Nil, end |-> e, text |-> entity[SetMin(known)][2]]

\* the first index from s on that holds no digit of the base
digitsEnd(b, s, base) ==
    SetMin({t \in s..(Len(b) + 1) :
              \/ t > Len(b)
              \/ ~(\/ b[t] \in 48..57
                   \/ base = 16 /\ (b[t] \in 97..102 \/ b[t] \in 65..70))})

\* the escape that the & at a starts in d.text: its text and last index
entityAt(b, a) ==
    IF a + 1 > Len(b) THEN [err |-> ErrUnexpectedEOF]
    ELSE IF b[a + 1] # 35 THEN namedEntity(b, a, nameEnd(b, a + 1))
    ELSE IF a + 2 > Len(b) THEN [err |-> ErrUnexpectedEOF]
    ELSE IF b[a + 2] # 120
    THEN numericEntity(b, a, a + 2, digitsEnd(b, a + 2, 10), 10)
    ELSE IF a + 3 > Len(b) THEN [err |-> ErrUnexpectedEOF]
    ELSE numericEntity(b, a, a + 3, digitsEnd(b, a + 3, 16), 16)

\* what d.text writes for the byte at i of a text that starts at p: the
\* text of an escape that starts there, nothing for the rest of an escape
\* (ents has the escapes by their first index), \n for \r and for \r\n
textByte(b, p, ents, i) ==
    IF i \in DOMAIN ents THEN ents[i].text
    ELSE IF \E a \in DOMAIN ents : a < i /\ i <= ents[a].end THEN << >>
    ELSE IF b[i] = 13 THEN <<10>>
    ELSE IF b[i] = 10 /\ i > p /\ b[i - 1] = 13 THEN << >>
    ELSE <<b[i]>>

\* the bytes d.text writes for b[lo..hi]
RECURSIVE textBytes(_, _, _, _, _)
textBytes(b, p, ents, lo, hi) ==
    IF lo > hi THEN << >>
    ELSE IF lo = hi THEN textByte(b, p, ents, lo)
    ELSE textBytes(b, p, ents, lo, (lo + hi) \div 2)
            \o textBytes(b, p, ents, (lo + hi) \div 2 + 1, hi)

\* the digits of n to the base 16, four at least, for %U
RECURSIVE HexDigits(_, _)
HexDigits(n, width) ==
    IF n = 0 /\ width <= 0 THEN ""
    ELSE HexDigits(n \div 16, width - 1)
            \o AsciiChars[(IF n % 16 < 10 THEN 17 ELSE 24) + (n % 16)]

\* the loop of d.text over the runes of the bytes it has written
textChecked(data, p) ==
    LET bad == {i \in 1..Len(data) :
                  /\ ~utf8Covered(data, i)
                  /\ \/ utf8Width(data, i) = 0
                     \/ ~isInCharacterRange(utf8Rune(data, i, utf8Width(data, i)))}
    IN  IF bad = {} THEN [err |-> Nil, data |-> data, p |-> p]
        ELSE IF utf8Width(data, SetMin(bad)) = 0
        THEN [err |-> "invalid UTF-8"]
        ELSE [err |-> "illegal character code U+"
                         \o HexDigits(utf8Rune(data, SetMin(bad),
                                               utf8Width(data, SetMin(bad))), 4)]

\* d.text(-1, true) after <![CDATA[ at p: the text up to ]]>, at index k
cdataText(b, p, k) ==
    IF k = 0 THEN [err |-> "unexpected EOF in CDATA section"]
    ELSE textChecked(textBytes(b, p, << >>, p, k - 1), k + 3)

\* d.text(quote, false) at p, the text ending before e, where the first <,
\* the first quote or the end of the input is; quote is -1 outside of an
\* attribute value.  The first of ]]> and a wrong escape is the error
plainText(b, p, e, quote) ==
    LET amps == {a \in p..(e - 1) : b[a] = 38}
        ents == [a \in amps |-> entityAt(b, a)]
        wrong == {a \in amps : ents[a].err # Nil}
        closes == {k \in p..(e - 3) : b[k] = 93 /\ b[k + 1] = 93 /\ b[k + 2] = 62}
    IN  IF wrong # {} /\ (closes = {} \/ SetMin(wrong) < SetMin(closes))
        THEN [err |-> ents[SetMin(wrong)].err]
        ELSE IF closes # {} THEN [err |-> "unescaped ]]> not in CDATA section"]
        ELSE IF e <= Len(b) /\ b[e] = 60 /\ quote >= 0
        THEN [err |-> "unescaped < inside quoted string"]
        ELSE textChecked(textBytes(b, p, ents, p, e - 1),
                         IF e <= Len(b) /\ b[e] = quote THEN e + 1 ELSE e)

\* d.text(quote, false) at p
text(b, p, quote) ==
    plainText(b, p,
              SetMin({q \in p..(Len(b) + 1) :
                        q > Len(b) \/ b[q] = 60 \/ b[q] = quote}),
              quote)

\* the attribute value after the = and the blanks that follow it, at q;
\* a value that runs to the end of the input is followed by the
\* unexpected EOF of the next read
attrval(b, q) ==
    IF q > Len(b) THEN [err |-> ErrUnexpectedEOF]
    ELSE IF b[q] \notin {34, 39}
    THEN [err |-> "unquoted or missing attribute value in element"]
    ELSE LET data == text(b, q + 1, b[q])
         IN  IF data.err = Nil /\ data.p > Len(b) THEN [err |-> ErrUnexpectedEOF]
             ELSE data

\* the attribute whose name nm was read, the blanks after the name ending
\* before q
attrNamed(b, nm, q) ==
    IF q > Len(b) THEN [err |-> ErrUnexpectedEOF]
    ELSE IF b[q] # 61 THEN [err |-> "attribute name without = in element"]
    ELSE LET data == attrval(b, spaceEnd(b, q + 1))
         IN  IF data.err # Nil THEN [err |-> data.err]
             ELSE [err |-> Nil, Name |-> nm.s, Value |-> data.data, p |-> data.p]

\* one turn of the attribute loop of rawToken for the name answer nm
attrRead(b, nm) ==
    IF ~nm.ok THEN nameError(nm, "expected attribute name in element")
    ELSE attrNamed(b, nm, spaceEnd(b, nm.p))

\* the attribute loop of rawToken from p on, for the element nm with the
\* attributes attr read so far
RECURSIVE attrLoop(_, _, _, _)
attrLoop(b, nm, q, attr) ==
    IF q > Len(b) THEN [err |-> ErrUnexpectedEOF]
    ELSE IF b[q] = 47
    THEN IF q + 1 > Len(b) THEN [err |-> ErrUnexpectedEOF]
         ELSE IF b[q + 1] # 62 THEN [err |-> "expected /> in element"]
         ELSE [err |-> Nil, kind |-> "StartElement", Name |-> nm, Attr |-> attr,
               empty |-> TRUE, p |-> q + 2]
    ELSE IF b[q] = 62
    THEN [err |-> Nil, kind |-> "StartElement", Name |-> nm, Attr |-> attr,
          empty |-> FALSE, p |-> q + 1]
    ELSE LET a == attrRead(b, nsname(b, q))
         IN  IF a.err # Nil THEN [err |-> a.err]
             ELSE attrLoop(b, nm, spaceEnd(b, a.p),
                           Append(attr, [Name |-> a.Name, Value |-> a.Value]))

\* rawToken on <name ..., for the name answer nm
startElement(b, nm) ==
    IF ~nm.ok THEN nameError(nm, "expected element name after <")
    ELSE attrLoop(b, nm.s, spaceEnd(b, nm.p), << >>)

\* a token that is no element, ending before p
otherToken(kind, p) ==
    [err |-> Nil, kind |-> kind, Name |-> << >>, Attr |-> << >>,
     empty |-> FALSE, p |-> p]

\* rawToken on </name ..., for the name answer nm and the index q after
\* the blanks that follow the name
endElement(b, nm, q) ==
    IF ~nm.ok THEN nameError(nm, "expected element name after </")
    ELSE IF q > Len(b) THEN [err |-> ErrUnexpectedEOF]
    ELSE IF b[q] # 62
    THEN [err |-> "invalid characters between </" \o StringOf(Local(nm.s))
                     \o " and >"]
    ELSE [err |-> Nil, kind |-> "EndElement", Name |-> nm.s, Attr |-> << >>,
          empty |-> FALSE, p |-> q + 1]

\* procInst(param, s) from the index i of s on (0-based as in the source),
\* param with its = sign: the value in quotes after the first param= that
\* a quote follows
RECURSIVE procInstFrom(_, _, _)
procInstFrom(param, s, i) ==
    LET k == IndexFrom(s, i + 1, param)
    IN  IF k = 0 \/ k + Len(param) > Len(s) THEN << >>
        ELSE IF s[k + Len(param)] \in {39, 34}
        THEN LET j == IndexFrom(s, k + Len(param) + 1, <<s[k + Len(param)]>>)
             IN  IF j = 0 THEN << >> ELSE SubSeq(s, k + Len(param) + 1, j - 1)
        ELSE procInstFrom(param, s, k + Len(param))

procInst(param, s) == procInstFrom(param \o <<61>>, s, 0)

\* strings.EqualFold(enc, "utf-8")
EqualFoldUtf8(enc) ==
    /\ Len(enc) = 5
    /\ enc[1] \in {117, 85} /\ enc[2] \in {116, 84} /\ enc[3] \in {102, 70}
    /\ enc[4] = 45 /\ enc[5] = 56

\* the tests of rawToken on the content of <?xml ...?>, which ends before p
xmlDeclaration(ver, enc, p) ==
    IF ver # << >> /\ ver # <<49, 46, 48>>
    THEN [err |-> "xml: unsupported version \"" \o StringOf(ver)
                     \o "\"; only version 1.0 is supported"]
    ELSE IF enc # << >> /\ ~EqualFoldUtf8(enc)
    THEN [err |-> "xml: encoding \"" \o StringOf(enc)
                     \o "\" declared but Decoder.CharsetReader is nil"]
    ELSE otherToken("ProcInst", p)

\* rawToken on <?target ..., for the name answer target; k is the index of
\* the first ?> after the blanks that follow the target, at q
procInstruction(b, target, q, k) ==
    IF ~target.ok THEN nameError(target, "expected target name after <?")
    ELSE IF k = 0 THEN [err |-> ErrUnexpectedEOF]
    ELSE IF target.s = <<120, 109, 108>>
    THEN xmlDeclaration(procInst(<<118, 101, 114, 115, 105, 111, 110>>,
                                 SubSeq(b, q, k - 1)),
                        procInst(<<101, 110, 99, 111, 100, 105, 110, 103>>,
                                 SubSeq(b, q, k - 1)),
                        k + 2)
    ELSE otherToken("ProcInst", k + 2)

\* rawToken after <!--, at p: the comment ends at the first --, which a >
\* has to follow
comment(b, p) ==
    LET k == IndexFrom(b, p, <<45, 45>>)
    IN  IF k = 0 \/ k + 2 > Len(b) THEN [err |-> ErrUnexpectedEOF]
        ELSE IF b[k + 2] # 62
        THEN [err |-> "invalid sequence \"--\" not allowed in comments"]
        ELSE otherToken("Comment", k + 3)

\* the first of the bytes b[p..] that differs from pat, as an index of
\* pat; 0 if pat lies at p
Mismatch(b, p, pat) ==
    LET off == {j \in 1..Len(pat) : p + j - 1 > Len(b) \/ b[p + j - 1] # pat[j]}
    IN  IF off = {} THEN 0 ELSE SetMin(off)

\* rawToken after <![, at p
cdata(b, p) ==
    LET m == Mismatch(b, p, <<67, 68, 65, 84, 65, 91>>)
    IN  IF m = 0
        THEN LET data == cdataText(b, p + 6, IndexFrom(b, p + 6, <<93, 93, 62>>))
             IN  IF data.err # Nil THEN [err |-> data.err]
                 ELSE otherToken("CharData", data.p)
        ELSE IF p + m - 1 > Len(b) THEN [err |-> ErrUnexpectedEOF]
        ELSE [err |-> "invalid <![ sequence"]

\* the loop of rawToken over a directive <!...>: the index after its
\* closing >, 0 if the input ends before.  directiveEnd reads the byte at
\* q, directiveByte is the label HandleB for it
RECURSIVE directiveEnd(_, _, _, _)
RECURSIVE directiveByte(_, _, _, _)
directiveEnd(b, q, inquote, depth) ==
    IF q > Len(b) THEN 0
    ELSE IF inquote = 0 /\ b[q] = 62 /\ depth = 0 THEN q + 1
    ELSE directiveByte(b, q, inquote, depth)

directiveByte(b, q, inquote, depth) ==
    IF b[q] = inquote THEN directiveEnd(b, q + 1, 0, depth)
    ELSE IF inquote # 0 THEN directiveEnd(b, q + 1, inquote, depth)
    ELSE IF b[q] \in {39, 34} THEN directiveEnd(b, q + 1, b[q], depth)
    ELSE IF b[q] = 62 THEN directiveEnd(b, q + 1, 0, depth - 1)
    ELSE IF b[q] = 60
    THEN LET m == Mismatch(b, q + 1, <<33, 45, 45>>)
             k == IndexFrom(b, q + 4, <<45, 45, 62>>)
         IN  IF m = 0
             THEN IF k = 0 THEN 0 ELSE directiveEnd(b, k + 3, 0, depth)
             ELSE IF q + m > Len(b) THEN 0
             ELSE directiveByte(b, q + m, 0, depth + 1)
    ELSE directiveEnd(b, q + 1, 0, depth)

\* rawToken on a directive, for the answer p of directiveEnd
directive(p) ==
    IF p = 0 THEN [err |-> ErrUnexpectedEOF] ELSE otherToken("Directive", p)

\* rawToken after <!, at p
declaration(b, p) ==
    IF p > Len(b) THEN [err |-> ErrUnexpectedEOF]
    ELSE IF b[p] = 45
    THEN IF p + 1 > Len(b) THEN [err |-> ErrUnexpectedEOF]
         ELSE IF b[p + 1] # 45
         THEN [err |-> "invalid sequence <!- not part of <!--"]
         ELSE comment(b, p + 2)
    ELSE IF b[p] = 91 THEN cdata(b, p + 1)
    ELSE directive(directiveEnd(b, p + 1, 0, 0))

\* rawToken on character data at p
charData(data) ==
    IF data.err # Nil THEN [err |-> data.err] ELSE otherToken("CharData", data.p)

\* the name of an end tag or of a processing instruction, read at p
markupName(b, p) == IF b[p - 1] = 47 THEN nsname(b, p) ELSE name(b, p)

\* rawToken after a < whose next byte, at q, is / or ?
closingOrInstruction(b, q, nm) ==
    IF b[q] = 47
    THEN endElement(b, nm, IF nm.ok THEN spaceEnd(b, nm.p) ELSE 0)
    ELSE procInstruction(b, nm, IF nm.ok THEN spaceEnd(b, nm.p) ELSE 0,
             IF nm.ok THEN IndexFrom(b, spaceEnd(b, nm.p), <<63, 62>>) ELSE 0)

\* rawToken after a <, the next byte being at q
markup(b, q) ==
    IF q > Len(b) THEN [err |-> ErrUnexpectedEOF]
    ELSE IF b[q] \in {47, 63} THEN closingOrInstruction(b, q, markupName(b, q + 1))
    ELSE IF b[q] = 33 THEN declaration(b, q + 1)
    ELSE startElement(b, nsname(b, q))

\* d.rawToken(): the second half of a self-closing element, or the token
\* at d.p
rawToken(b, d) ==
    IF d.needClose
    THEN [err |-> Nil, kind |-> "EndElement", Name |-> d.toClose,
          Attr |-> << >>, empty |-> FALSE, p |-> d.p]
    ELSE IF d.p > Len(b) THEN [err |-> ErrEOF]
    ELSE IF b[d.p] # 60 THEN charData(text(b, d.p, -1))
    ELSE markup(b, d.p + 1)

\* d.popElement for the end tag s
popElement(d, s) ==
    IF d.stk = << >>
    THEN "unexpected end element </" \o StringOf(Local(s)) \o ">"
    ELSE IF Local(d.stk[Len(d.stk)]) # Local(s)
    THEN "element <" \o StringOf(Local(d.stk[Len(d.stk)])) \o "> closed by </"
            \o StringOf(Local(s)) \o ">"
    ELSE IF Space(d.stk[Len(d.stk)]) # Space(s)
    THEN "element <" \o StringOf(Local(s)) \o "> in space "
            \o StringOf(Space(d.stk[Len(d.stk)])) \o " closed by </"
            \o StringOf(Local(s)) \o "> in space "
            \o (IF Space(s) = << >> THEN "\"\"" ELSE StringOf(Space(s)))
    ELSE Nil

\* d.Token() for the answer t of rawToken: the end of the input inside an
\* element is a syntax error; a start tag is pushed on the stack of open
\* elements, an end tag has to close the top of it
tokenOf(d, t) ==
    IF t.err # Nil
    THEN [err |-> IF t.err = ErrEOF /\ d.stk # << >> THEN ErrUnexpectedEOF
                  ELSE t.err]
    ELSE IF t.kind = "EndElement" /\ popElement(d, t.Name) # Nil
    THEN [err |-> popElement(d, t.Name)]
    ELSE [err |-> Nil, kind |-> t.kind, Name |-> t.Name, Attr |-> t.Attr,
          d |-> [p |-> t.p,
                 needClose |-> t.empty,
                 toClose |-> t.Name,
                 stk |-> IF t.kind = "StartElement" THEN Append(d.stk, t.Name)
                         ELSE IF t.kind = "EndElement"
                         THEN SubSeq(d.stk, 1, Len(d.stk) - 1)
                         ELSE d.stk]]

Token(b, d) == tokenOf(d, rawToken(b, d))

\* the value the attribute loop of unmarshal leaves in the field called
\* field: that of the last attribute whose local name it is
attrField(Attr, field) ==
    LET named == {k \in 1..Len(Attr) : Local(Attr[k].Name) = field}
    IN  IF named = {} THEN << >> ELSE Attr[SetMax(named)].Value

\* unmarshal of a start tag into a new element of the Default slice
defaultOf(Attr) ==
    [Extension |-> attrField(Attr, <<69, 120, 116, 101, 110, 115, 105, 111, 110>>),
     ContentType |-> attrField(Attr, StrContentType)]

\* unmarshal of a start tag into a new element of the Override slice
overrideOf(Attr) ==
    [PartName |-> attrField(Attr, <<80, 97, 114, 116, 78, 97, 109, 101>>),
     ContentType |-> attrField(Attr, StrContentType)]

\* unmarshal on the token t, read in the state u: before the root element
\* everything but a start tag is passed over and the start tag has to be
\* Types; directly inside the root a Default or an Override element is
\* appended to its slice and taken back if an error comes before its end
\* tag, every other element is skipped; the end tag of the root ends the
\* decoding
unmarshalToken(u, t) ==
    IF ~u.started
    THEN IF t.kind # "StartElement" THEN [u EXCEPT !.d = t.d]
         ELSE IF Local(t.Name) # StrTypes
         THEN [u EXCEPT !.err = "expected element type <Types> but have <"
                                   \o StringOf(Local(t.Name)) \o ">"]
         ELSE [u EXCEPT !.d = t.d, !.started = TRUE]
    ELSE IF Len(u.d.stk) = 1
    THEN IF t.kind = "EndElement" THEN [u EXCEPT !.d = t.d, !.done = TRUE]
         ELSE IF t.kind # "StartElement" THEN [u EXCEPT !.d = t.d]
         ELSE IF Local(t.Name) = StrDefault
         THEN [u EXCEPT !.d = t.d,
                        !.Default = Append(u.Default, defaultOf(t.Attr)),
                        !.open = "Default"]
         ELSE IF Local(t.Name) = StrOverride
         THEN [u EXCEPT !.d = t.d,
                        !.Override = Append(u.Override, overrideOf(t.Attr)),
                        !.open = "Override"]
         ELSE [u EXCEPT !.d = t.d]
    ELSE IF Len(t.d.stk) = 1 THEN [u EXCEPT !.d = t.d, !.open = ""]
    ELSE [u EXCEPT !.d = t.d]

\* one token of the loops of unmarshal and Skip
unmarshalStep(b, u) ==
    LET t == Token(b, u.d)
    IN  IF t.err # Nil THEN [u EXCEPT !.err = t.err] ELSE unmarshalToken(u, t)

\* at most fuel tokens
RECURSIVE unmarshalRun(_, _, _)
unmarshalRun(b, u, fuel) ==
    IF u.err # Nil \/ u.done \/ fuel = 0 THEN u
    ELSE IF fuel = 1 THEN unmarshalStep(b, u)
    ELSE unmarshalRun(b, unmarshalRun(b, u, fuel \div 2), fuel - fuel \div 2)

\* the slices after the decoding has stopped: v.SetLen(n) takes the
\* element back that was being read when the error came
unmarshalled(u) ==
    [err |-> u.err,
     Default |-> IF u.err # Nil /\ u.open = "Default"
                 THEN SubSeq(u.Default, 1, Len(u.Default) - 1) ELSE u.Default,
     Override |-> IF u.err # Nil /\ u.open = "Override"
                  THEN SubSeq(u.Override, 1, Len(u.Override) - 1) ELSE u.Override]

\* err = xml.Unmarshal(b, &contentTypes), for the ContentTypes of
\* main.go:382-392 with the elements it holds already: every token takes a
\* byte or closes a self-closing element
xmlUnmarshal(b, contentTypes) ==
    unmarshalled(
        unmarshalRun(b, [d |-> [p |-> 1, needClose |-> FALSE, toClose |-> << >>,
                                stk |-> << >>],
                         err |-> Nil, done |-> FALSE, started |-> FALSE,
                         open |-> "", Default |-> contentTypes.Default,
                         Override |-> contentTypes.Override],
                     2 * Len(b) + 1))

-----------------------------------------------------------------------------
(* internal/extractor: validators.                                         *)

\* data[:4] equals PK 03 04.  Every caller has matched at least the 4 magic
\* bytes before, so the slice expression data[:4] is always in range.
validateZipFile(data) == MatchAt(data, 0, MagicPK)

validateJpegImproved(data) ==
    IF LenB(data) < 4 THEN FALSE
    ELSE IF ~HasPrefix(data, MagicJPG) THEN FALSE
    ELSE LET hasEOI == \E i \in 0..(LenB(data) - 2) :
                          ByteAt(data, i) = 255 /\ ByteAt(data, i + 1) = 217
         IN  hasEOI

validatePdf(data) ==
    IF LenB(data) < 100 THEN FALSE
    ELSE IF ~HasPrefix(data, StrPdfPrefix) THEN FALSE
    ELSE IF LenB(data) >= 8
            /\ LET version == Bytes(Slice(data, 5, 8))
               IN  StrLess(version, Str10) \/ StrLess(Str20, version)
         THEN FALSE
    ELSE IF ~Contains(data, StrXref) THEN FALSE
    ELSE IF ~Contains(data, StrSpObj) /\ ~Contains(data, StrNlObj) THEN FALSE
    ELSE LET eofPos == LastIndex(data, StrEOF)
         IN  IF eofPos = -1 THEN FALSE
             ELSE IF eofPos + 5 < LenB(data)
                     /\ LET trailer == ByteAt(data, eofPos + 5)
                        IN  trailer # CharCR /\ trailer # CharLF
                            /\ trailer # CharSP /\ trailer # CharTAB
                  THEN FALSE
             ELSE IF ~Contains(Slice(data, 0, eofPos), StrStartxref) THEN FALSE
             ELSE TRUE

validateMSOfficeFile(data) ==
    IF LenB(data) < 8 THEN FALSE
    ELSE IF ~MatchAt(data, 0, MagicOLE) THEN FALSE
    ELSE IF LenB(data) > 512
         THEN LET hasWordDocument == Contains(data, StrWordDocument)
                  hasWorkbook == Contains(data, StrWorkbook)
                  hasPowerPoint == Contains(data, StrPowerPoint)
              IN  hasWordDocument \/ hasWorkbook \/ hasPowerPoint
         ELSE TRUE

\* hasContentTypes is declared false and never assigned; contentTypes is
\* never decoded into, so its Default and Override lists stay empty.
validateOfficeOpenXML(expectedContent, expectedType, data) ==
    IF ~validateZipFile(data) THEN FALSE
    ELSE IF zipNewReader(data).err # Nil THEN FALSE
    ELSE LET hasContentTypes == FALSE
             officeInfoType == UnknownOffice
             contentTypesDefault == {}
         IN  IF ~hasContentTypes THEN FALSE
             ELSE IF officeInfoType # expectedType THEN FALSE
             ELSE \E defaultType \in contentTypesDefault :
                     Index(defaultType, expectedContent) # -1

\* the switch of main.go:504-511 takes one of its cases for the ContentType
namesType(contentType) ==
    \/ Contains(MemSlice(contentType), StrWordprocessing)
    \/ Contains(MemSlice(contentType), StrSpreadsheet)
    \/ Contains(MemSlice(contentType), StrPresentation)

\* the case it takes
contentKind(contentType) ==
    IF Contains(MemSlice(contentType), StrWordprocessing) THEN WordDocument
    ELSE IF Contains(MemSlice(contentType), StrSpreadsheet) THEN ExcelDocument
    ELSE PowerPointDocument

\* officeInfo.Type after the loop of main.go:503-512 over the Override
\* elements: the kind of the last one that names a kind, else the value
\* officeType it had
overrideKind(Override, officeType) ==
    LET named == {k \in 1..Len(Override) : namesType(Override[k].ContentType)}
    IN  IF named = {} THEN officeType
        ELSE contentKind(Override[SetMax(named)].ContentType)

\* main.go:499-513 for the answer x of xml.Unmarshal: the elements decoded
\* before an error stay in contentTypes
contentTypesDecoded(st, x) ==
    [contentTypes |-> [Default |-> x.Default, Override |-> x.Override],
     hasContentTypes |-> st.hasContentTypes \/ x.err = Nil,
     Type |-> IF x.err = Nil THEN overrideKind(x.Override, st.Type) ELSE st.Type]

\* the case "[Content_Types].xml" of main.go:487-513 for the answer
\* contentData of Open and ReadAll
contentTypesMember(st, contentData) ==
    IF contentData.err # Nil THEN st
    ELSE contentTypesDecoded(st, xmlUnmarshal(Bytes(contentData.Body),
                                              st.contentTypes))

\* the loop of main.go:485-556 from the member i on; contentTypes,
\* hasContentTypes and officeInfo are declared before it, so every member
\* called [Content_Types].xml is decoded into the same ContentTypes.  The
\* cases docProps/app.xml and docProps/core.xml set fields of officeInfo
\* that the answer does not depend on
RECURSIVE membersRead(_, _, _, _)
membersRead(data, File, i, st) ==
    IF i > Len(File) THEN st
    ELSE IF File[i].Name # StrContentTypesXml THEN membersRead(data, File, i + 1, st)
    ELSE membersRead(data, File, i + 1,
                     contentTypesMember(st, zipReadAll(data, File[i])))

\* main.go:558-572
contentTypesAccepted(expectedContent, expectedType, st) ==
    IF ~st.hasContentTypes THEN FALSE
    ELSE IF st.Type # expectedType THEN FALSE
    ELSE \E j \in 1..Len(st.contentTypes.Default) :
            Contains(MemSlice(st.contentTypes.Default[j].ContentType),
                     expectedContent)

\* the validator of the single-file program kept in cmd/app (main.go:470-574),
\* which decodes [Content_Types].xml
mainValidateOfficeOpenXML(expectedContent, expectedType, data) ==
    IF ~validateZipFile(data) THEN FALSE
    ELSE \E zipReader \in {zipNewReader(data)} :
            /\ zipReader.err = Nil
            /\ contentTypesAccepted(expectedContent, expectedType,
                   membersRead(data, zipReader.File, 1,
                               [contentTypes |-> [Default |-> << >>,
                                                  Override |-> << >>],
                                hasContentTypes |-> FALSE,
                                Type |-> UnknownOffice]))

\* validateOpenDocument from office.go:117 on, for the reader's answer: a
\* member mimetype that cannot be opened or read is passed over
openDocumentMembers(data, zipReader) ==
    IF zipReader.err # Nil THEN FALSE
    ELSE LET hasMimetype ==
                 \E i \in 1..Len(zipReader.File) :
                     /\ zipReader.File[i].Name = StrMimetype
                     /\ \E mimeData \in {zipReadAll(data, zipReader.File[i])} :
                            /\ mimeData.err = Nil
                            /\ \/ Contains(mimeData.Body, StrMimeText)
                               \/ Contains(mimeData.Body, StrMimeSheet)
                               \/ Contains(mimeData.Body, StrMimePres)
             hasContent ==
                 \E i \in 1..Len(zipReader.File) :
                     \/ zipReader.File[i].Name = StrContentXml
                     \/ zipReader.File[i].Name = StrStylesXml
         IN  hasMimetype /\ hasContent

validateOpenDocument(data) ==
    IF ~validateZipFile(data)
    THEN IF HasPrefix(data, StrXmlDecl)
         THEN Contains(data, StrOfficeDocument)
         ELSE FALSE
    ELSE openDocumentMembers(data, zipNewReader(data))

-----------------------------------------------------------------------------
(* internal/extractor: the signature registry and the scanner.             *)

Sig(ext, magic, validator) ==
    [Extension |-> ext, MagicNumber |-> magic, Offset |-> 0, Validator |-> validator]

fileSignatures ==
    << Sig("doc", MagicOLE, "validateMSOfficeFile"),
       Sig("docx", MagicPK, "validateOfficeOpenXML(word/)"),
       Sig("ppt", MagicOLE, "validateMSOfficeFile"),
       Sig("pptx", MagicPK, "validateOfficeOpenXML(ppt/)"),
       Sig("xls", MagicOLE, "validateMSOfficeFile"),
       Sig("xlsx", MagicPK, "validateOfficeOpenXML(xl/)"),
       Sig("jpg", MagicJPG, "validateJpegImproved"),
       Sig("jpeg", MagicJPG, "validateJpegImproved"),
       Sig("pdf", MagicPDF, "validatePdf"),
       Sig("rtf", MagicRTF, Nil),
       Sig("odt", MagicPK, "validateOpenDocument"),
       Sig("ods", MagicPK, "validateOpenDocument"),
       Sig("ots", MagicPK, "validateOpenDocument"),
       Sig("fods", MagicFODS, Nil),
       Sig("odp", MagicPK, "validateOpenDocument"),
       Sig("zip", MagicPK, "validateZipFile"),
       Sig("html", MagicHTMLDoctype, Nil),
       Sig("html", MagicHTMLLower, Nil),
       Sig("html", MagicHTMLUpper, Nil) >>

\* the arguments the three closures of the registry give validateOfficeOpenXML
OoxmlArgs ==
    [v \in {"validateOfficeOpenXML(word/)", "validateOfficeOpenXML(ppt/)",
            "validateOfficeOpenXML(xl/)"} |->
        CASE v = "validateOfficeOpenXML(word/)" -> <<StrWordPrefix, WordDocument>>
          [] v = "validateOfficeOpenXML(ppt/)" ->
                <<<<112, 112, 116, 47>>, PowerPointDocument>>
          [] v = "validateOfficeOpenXML(xl/)" -> <<<<120, 108, 47>>, ExcelDocument>>]

\* sig.Validator(data)
Validate(validator, data) ==
    CASE validator = "validateMSOfficeFile" -> validateMSOfficeFile(data)
      [] validator \in DOMAIN OoxmlArgs ->
            validateOfficeOpenXML(OoxmlArgs[validator][1], OoxmlArgs[validator][2],
                                  data)
      [] validator = "validateJpegImproved" -> validateJpegImproved(data)
      [] validator = "validatePdf" -> validatePdf(data)
      [] validator = "validateOpenDocument" -> validateOpenDocument(data)
      [] validator = "validateZipFile" -> validateZipFile(data)

\* one iteration of the scanner's loop: does sig go into found?
SigFound(sig, data, allowed) ==
    IF allowed # {} /\ sig.Extension \notin allowed THEN FALSE
    ELSE IF Len(sig.MagicNumber) = 0 THEN FALSE
    ELSE LET offset == sig.Offset
             end == offset + Len(sig.MagicNumber)
         IN  IF end > LenB(data) THEN FALSE
             ELSE IF MatchAt(Slice(data, offset, end), 0, sig.MagicNumber)
                  THEN IF sig.Validator # Nil
                       THEN Validate(sig.Validator, data)
                       ELSE TRUE
                  ELSE FALSE

\* variant: the descriptors that match are returned in reverse registry order
FindFileSignatures_reversed(data, allowed) ==
    LET found == SelectSeq(fileSignatures, LAMBDA sig : SigFound(sig, data, allowed))
    IN  [i \in 1..Len(found) |-> found[Len(found) + 1 - i]]

FindFileSignatures(data, allowed) ==
    SelectSeq(fileSignatures, LAMBDA sig : SigFound(sig, data, allowed))

\* the extensions of the registry; the callers use the list as a set of keys
GetSupportedExtensions == {fileSignatures[i].Extension : i \in 1..Len(fileSignatures)}

\* the allow-sets ProcessFile is run with ({} is the empty map)
AllowSets == { {} }

\* strings.TrimSpace(strings.ToLower(ext)) (main.go:101)
TrimLower(ext) == TrimSpace(StringsToLower(ext))

\* the keys of the loop of main.go:99-105
parsedFields(extStr) ==
    LET exts == StringsSplit(extStr)
    IN  {StringOf(TrimLower(exts[i])) : i \in 1..Len(exts)} \ {""}

\* variant: "all" is taken for the name of an extension
parseExtensions_literalAll(extStr) == parsedFields(extStr)

\* parseExtensions of main.go:90-107; the result is the set of the keys
\* set to true
parseExtensions(extStr) ==
    IF extStr = <<97, 108, 108>>
    THEN GetSupportedExtensions
    ELSE parsedFields(extStr)

\* the values of the -ext flag the runs are made with: the default "" and
\* "all"
ExtFlags == { << >>, <<97, 108, 108>> }

\* the allow-sets the binary office inputs are run with: everything, and
\* one of the later MS-OLE extensions alone
OleAllowSets == { {}, {"xls"}, {"ppt"} }

\* the allow-sets the scanner is tabulated for
ScanSets == AllowSets \cup {parseExtensions(f) : f \in ExtFlags} \cup OleAllowSets

\* is the slice a suffix data[p:] of its input buffer?
IsSuffix(data) == data.hi = Len(Inputs[data.buf])

\* FindFileSignatures on every suffix of every input, tabulated
FindFileSignaturesTab ==
    [allowed \in ScanSets |->
        [k \in 1..Len(Inputs) |->
            [p \in 0..Len(Inputs[k]) |->
                FindFileSignatures(SliceFrom(Whole(k), p), allowed)]]]

\* FindFileSignatures(data, allowed), read from the table where it has the value
Scanned(data, allowed) ==
    IF IsSuffix(data) /\ allowed \in ScanSets
    THEN FindFileSignaturesTab[allowed][data.buf][data.lo]
    ELSE FindFileSignatures(data, allowed)

-----------------------------------------------------------------------------
(* internal/extractor: ExtractFile.                                        *)

minFileSize == 2048

\* strings.HasPrefix(ext, "doc") || ... "xls" || ... "ppt"
IsOfficeExt(ext) == ext \in {"doc", "docx", "xls", "xlsx", "ppt", "pptx"}

\* strings.ToUpper on the registry's extensions
ToUpper(ext) ==
    CASE ext = "doc" -> "DOC" [] ext = "docx" -> "DOCX" [] ext = "ppt" -> "PPT"
      [] ext = "pptx" -> "PPTX" [] ext = "xls" -> "XLS" [] ext = "xlsx" -> "XLSX"
      [] ext = "jpg" -> "JPG" [] ext = "jpeg" -> "JPEG" [] ext = "pdf" -> "PDF"
      [] ext = "rtf" -> "RTF" [] ext = "odt" -> "ODT" [] ext = "ods" -> "ODS"
      [] ext = "ots" -> "OTS" [] ext = "fods" -> "FODS" [] ext = "odp" -> "ODP"
      [] ext = "zip" -> "ZIP" [] ext = "html" -> "HTML"

\* variant: PowerPoint is looked for before Workbook
OfficeTypeOf_powerPointFirst(data) ==
    IF Contains(data, StrWordDocument) THEN WordDocument
    ELSE IF Contains(data, StrPowerPoint) THEN PowerPointDocument
    ELSE IF Contains(data, StrWorkbook) THEN ExcelDocument
    ELSE UnknownOffice

\* processor.go:49-55
OfficeTypeOf(data) ==
    IF Contains(data, StrWordDocument) THEN WordDocument
    ELSE IF Contains(data, StrWorkbook) THEN ExcelDocument
    ELSE IF Contains(data, StrPowerPoint) THEN PowerPointDocument
    ELSE UnknownOffice

\* processor.go:58-99 for a binary office file of the given type
OfficeInfoTyped(data, type, isMacro) ==
      LET hasEncryptedMarker == Contains(data, StrEncrypt16)
          hasEncryptionHeader ==
              /\ LenB(data) > 512
              /\ \/ HasPrefix(SliceFrom(data, 512), MarkerEncHeader)
                 \/ Contains(Slice(data, 0, 512), StrEncryptPackage16)
          protectionFlagOffset ==
              CASE type = WordDocument -> 11
                [] type = ExcelDocument -> 47
                [] type = PowerPointDocument -> 15
                [] OTHER -> 0
          isEncrypted ==
              /\ LenB(data) > 512
              /\ protectionFlagOffset > 0
              /\ LenB(data) > protectionFlagOffset
              /\ ByteAt(data, protectionFlagOffset) % 2 # 0
          hasEncryptionStream == Contains(data, StrEncryptionInfo16)
      IN  IF type \in {WordDocument, ExcelDocument, PowerPointDocument}
          THEN [Type |-> type, Version |-> "", IsMacro |-> isMacro,
                IsEncrypted |->
                    \/ hasEncryptedMarker \/ hasEncryptionHeader
                    \/ isEncrypted \/ hasEncryptionStream
                    \/ (isMacro /\ Contains(data, StrDefaultPassword16))]
          ELSE [Type |-> type, Version |-> "", IsMacro |-> isMacro,
                IsEncrypted |-> FALSE]

\* the office information attached to a result (processor.go:44-101)
OfficeInfoOf(data, ext) ==
    IF ~IsOfficeExt(ext) THEN NilPtr
    ELSE IF ext \notin {"doc", "xls", "ppt"} THEN ZeroOfficeInfo
    ELSE OfficeInfoTyped(data, OfficeTypeOf(data), Contains(data, StrVbaProject))

\* the loop of processor.go:103-114 from registry entry i (1-based) on
RECURSIVE ClipFrom(_, _, _)
ClipFrom(data, i, fileEnd) ==
    IF i > Len(fileSignatures) THEN fileEnd
    ELSE LET otherSig == fileSignatures[i]
             idx == Index(data, otherSig.MagicNumber)
         IN  IF Len(otherSig.MagicNumber) = 0
             THEN ClipFrom(data, i + 1, fileEnd)
             ELSE IF idx # -1 /\ idx < fileEnd /\ idx > 0
                  THEN ClipFrom(data, i + 1, idx)
                  ELSE ClipFrom(data, i + 1, fileEnd)

\* fileEnd after the loop: the Go loop starts at index 1, the second entry
ClipForeign(data) == ClipFrom(data, 2, LenB(data))

\* the pdf case of the switch (processor.go:126-138)
PdfEnd(data, fileEnd) ==
    LET idx == LastIndex(data, StrEOF)
        e == idx + 5
    IN  IF idx = -1 THEN fileEnd
        ELSE IF e < LenB(data)
             THEN LET trailer == ByteAt(data, e)
                  IN  IF trailer = CharCR \/ trailer = CharLF THEN e + 1
                      ELSE IF e + 1 < LenB(data) /\ ByteAt(data, e) = CharCR
                              /\ ByteAt(data, e + 1) = CharLF
                           THEN e + 2
                           ELSE e
             ELSE e

\* the jpg/jpeg case (processor.go:117-125)
JpegEnd(data, fileEnd) ==
    LET i == LastIndex(data, MarkerEOI)
    IN  IF i = -1 THEN fileEnd ELSE i + 2

\* the zip/docx/xlsx/pptx/odt case (processor.go:139-142)
ZipEnd(data, fileEnd) ==
    LET idx == LastIndex(data, MagicEOCD)
    IN  IF idx # -1 THEN idx + 22 ELSE fileEnd

\* fileEnd after the switch on ext (processor.go:116-172)
RefineEnd(data, ext, fileEnd) ==
    CASE ext \in {"jpg", "jpeg"} -> JpegEnd(data, fileEnd)
      [] ext = "pdf" -> PdfEnd(data, fileEnd)
      [] ext \in {"zip", "docx", "xlsx", "pptx", "odt"} -> ZipEnd(data, fileEnd)
      [] OTHER -> fileEnd

\* fileType after the switch on ext
FileTypeLabel(ext) ==
    CASE ext \in {"jpg", "jpeg"} -> "JPEG Image"
      [] ext = "pdf" -> "PDF Document"
      [] ext = "docx" -> "Word Document (Open XML)"
      [] ext = "xlsx" -> "Excel Workbook (Open XML)"
      [] ext = "pptx" -> "PowerPoint Presentation (Open XML)"
      [] ext = "odt" -> "OpenDocument Text"
      [] ext = "zip" -> "ZIP Archive"
      [] ext = "doc" -> "Word Document (Binary)"
      [] ext = "xls" -> "Excel Workbook (Binary)"
      [] ext = "ppt" -> "PowerPoint Presentation (Binary)"
      [] ext = "rtf" -> "Rich Text Format"
      [] ext = "html" -> "HTML Document"
      [] OTHER -> ToUpper(ext)

\* processor.go:174-181
SameMagicFallback(data, sig, fileEnd) ==
    IF fileEnd = LenB(data) /\ LenB(data) > 100
    THEN LET nextSig == Index(SliceFrom(data, 1), sig.MagicNumber)
         IN  IF nextSig # -1 THEN nextSig + 1 ELSE fileEnd
    ELSE fileEnd

\* processor.go:183-185
ClampEnd(data, fileEnd) == IF fileEnd > LenB(data) THEN LenB(data) ELSE fileEnd

\* the resolved end of a candidate committed to sig
ResolveEnd(data, sig) ==
    ClampEnd(data,
        SameMagicFallback(data, sig,
            RefineEnd(data, sig.Extension, ClipForeign(data))))

\* the index of a signature in the registry
SigIndex(sig) == CHOOSE i \in 1..Len(fileSignatures) : fileSignatures[i] = sig

\* ResolveEnd and OfficeInfoOf on every suffix that starts with the magic of
\* a registry entry, tabulated (-1 / nil elsewhere)
ResolveEndTab ==
    [k \in 1..Len(Inputs) |->
        [p \in 0..Len(Inputs[k]) |->
            [i \in 1..Len(fileSignatures) |->
                IF MatchAt(SliceFrom(Whole(k), p), 0, fileSignatures[i].MagicNumber)
                THEN [fileEnd |-> ResolveEnd(SliceFrom(Whole(k), p), fileSignatures[i]),
                      officeInfo |-> OfficeInfoOf(SliceFrom(Whole(k), p),
                                                  fileSignatures[i].Extension)]
                ELSE [fileEnd |-> -1, officeInfo |-> NilPtr]]]]

\* ResolveEnd(data, sig), read from the table where it has the value
Resolved(data, sig) ==
    IF IsSuffix(data) /\ MatchAt(data, 0, sig.MagicNumber)
    THEN ResolveEndTab[data.buf][data.lo][SigIndex(sig)].fileEnd
    ELSE ResolveEnd(data, sig)

\* OfficeInfoOf(data, sig.Extension), likewise
OfficeInfoFor(data, sig) ==
    IF IsSuffix(data) /\ MatchAt(data, 0, sig.MagicNumber)
    THEN ResolveEndTab[data.buf][data.lo][SigIndex(sig)].officeInfo
    ELSE OfficeInfoOf(data, sig.Extension)

\* variant: the size test rejects the minimum size itself
TooSmall_inclusive(fileEnd) == fileEnd <= minFileSize

\* processor.go:187
TooSmall(fileEnd) == fileEnd < minFileSize

\* variant: the written slice is one byte short
FileData_short(data, fileEnd) == Slice(data, 0, fileEnd - 1)

\* fileData := data[:fileEnd] (processor.go:191)
FileData(data, fileEnd) == Slice(data, 0, fileEnd)

\* the decimal digits of n >= 0, most significant first
RECURSIVE Digits(_)
Digits(n) == IF n < 10 THEN <<n>> ELSE Append(Digits(n \div 10), n % 10)

\* fmt.Sprintf("%04d", n) for n >= 0: at least four digits, zero-padded
Sprintf04d(n) ==
    LET d == Digits(n)
    IN  IF Len(d) >= 4 THEN d ELSE [i \in 1..(4 - Len(d)) |-> 0] \o d

\* fmt.Sprintf("file_%04d.%s", counter, ext) inside the output directory
FileName(cnt, ext) == [digits |-> Sprintf04d(cnt), ext |-> ext]

ErrNoSignature == "no known file signatures found"
ErrTooSmall == "file too small (less than 2048 bytes)"
ErrWrite == "failed to write file"

\* the return values in the error case: 0, 0, "", "", nil, err
Failure(err) ==
    [size |-> 0, endPos |-> 0, filename |-> "", fileType |-> "",
     officeInfo |-> NilPtr, err |-> err, written |-> NilPtr]

\* ExtractFile from processor.go:187 on, for the signature sig, the resolved
\* end fileEnd and the office information officeInfo
ExtractResolved(data, cnt, startPos, sig, fileEnd, officeInfo, writeOk) ==
    IF TooSmall(fileEnd) THEN Failure(ErrTooSmall)
    ELSE IF ~writeOk THEN Failure(ErrWrite)
    ELSE [size |-> fileEnd, endPos |-> startPos + fileEnd,
          filename |-> FileName(cnt, sig.Extension),
          fileType |-> FileTypeLabel(sig.Extension),
          officeInfo |-> officeInfo, err |-> Nil,
          written |-> [name |-> FileName(cnt, sig.Extension),
                       data |-> FileData(data, fileEnd)]]

\* ExtractFile from processor.go:40 on, committed to sig := foundSigs[0]
ExtractAs(data, cnt, startPos, sig, writeOk) ==
    ExtractResolved(data, cnt, startPos, sig, Resolved(data, sig),
                    OfficeInfoFor(data, sig), writeOk)

\* ExtractFile from processor.go:36 on, for the scanner's answer foundSigs
ExtractFound(data, cnt, startPos, foundSigs, writeOk) ==
    IF Len(foundSigs) = 0 THEN Failure(ErrNoSignature)
    ELSE ExtractAs(data, cnt, startPos, foundSigs[1], writeOk)

\* ExtractFile; writeOk says whether ioutil.WriteFile succeeds.  `written'
\* is the file the call leaves in the output directory.
ExtractFile(data, cnt, startPos, allowed, writeOk) ==
    ExtractFound(data, cnt, startPos, Scanned(data, allowed), writeOk)

\* does the scanner's answer take the call as far as ioutil.WriteFile?
WriteReached(data, foundSigs) ==
    /\ Len(foundSigs) > 0
    /\ ~TooSmall(Resolved(data, foundSigs[1]))

\* does the call get as far as ioutil.WriteFile?
ReachesWrite(data, allowed) == WriteReached(data, Scanned(data, allowed))

-----------------------------------------------------------------------------
(* internal/worker: records, channels and the aggregator's helpers.        *)

\* FileChunk (pool.go:49-54)
FileChunk(data, start, cnt, priority) ==
    [Data |-> data, Start |-> start, Counter |-> cnt, Priority |-> priority]

\* the record a worker sends for a failed extraction (pool.go:69-72).  The
\* aggregator reads nothing but Error from it; the worker id inside the
\* message and the Counter field are left out of the record.
ErrorResult(err) == [Error |-> err]

\* variant: End is left relative to the chunk
SuccessResult_relativeEnd(chunk, r) ==
    [Filename |-> r.filename, Size |-> r.size, Start |-> chunk.Start,
     End |-> r.size, Counter |-> chunk.Counter, FileType |-> r.fileType,
     OfficeInfo |-> r.officeInfo, Error |-> Nil]

\* the record a worker sends for a successful extraction (pool.go:76-84)
SuccessResult(chunk, r) ==
    [Filename |-> r.filename, Size |-> r.size, Start |-> chunk.Start,
     End |-> r.endPos, Counter |-> chunk.Counter, FileType |-> r.fileType,
     OfficeInfo |-> r.officeInfo, Error |-> Nil]

\* counter++ on an int32 (scheduler.go:134, 145)
NextCounter(c) == IF c = 2147483647 THEN (-2147483647) - 1 ELSE c + 1

\* capacity of wp.jobs and of wp.results (pool.go:20-21)
ChanCap(n) == n * 2

ErrKinds == {ErrNoSignature, ErrTooSmall, ErrWrite}

\* len(processingErrors)
NumErrors(errs) == errs[ErrNoSignature] + errs[ErrTooSmall] + errs[ErrWrite]

\* variant: the second comparison is made against the end of r
Intersects_endOnly(newRange, r) == newRange[1] < r[2] /\ newRange[2] > r[2]

\* the overlap test of scheduler.go:50
Intersects(newRange, r) == newRange[1] < r[2] /\ newRange[2] > r[1]

\* variant: only a range strictly inside an accepted one is an overlap
OverlapFound_strictlyInside(ranges, newRange) ==
    \E i \in 1..Len(ranges) :
        ranges[i][1] < newRange[1] /\ newRange[2] < ranges[i][2]

\* scheduler.go:47-55: does newRange meet an accepted range?
OverlapFound(ranges, newRange) ==
    \E i \in 1..Len(ranges) : Intersects(newRange, ranges[i])

\* scheduler.go:57-59
AcceptRange(ranges, newRange) ==
    IF ~OverlapFound(ranges, newRange) THEN Append(ranges, newRange) ELSE ranges

\* variant: the entry is set to 1 instead of incremented
CountType_reset(fileTypes, label) ==
    IF label \in DOMAIN fileTypes
    THEN [fileTypes EXCEPT ![label] = 1]
    ELSE fileTypes @@ (label :> 1)

\* stats.FileTypes[label]++ on a Go map
CountType(fileTypes, label) ==
    IF label \in DOMAIN fileTypes
    THEN [fileTypes EXCEPT ![label] = @ + 1]
    ELSE fileTypes @@ (label :> 1)

\* the bitmap of scheduler.go:94-107, indexed 0..n-1
CoveredMap(ranges, n) ==
    [i \in 0..(n - 1) |->
        \E k \in 1..Len(ranges) :
            LET start == IF ranges[k][1] < 0 THEN 0 ELSE ranges[k][1]
                end == IF ranges[k][2] > n THEN n ELSE ranges[k][2]
            IN  start <= i /\ i < end]

\* scheduler.go:109-114
CoveredCount(covered) == Cardinality({i \in DOMAIN covered : covered[i]})

\* float64(coveredCount) / float64(n) * 100 as the fraction num / den.  The
\* denominator is 0 only for an empty input, where the division is 0 / 0:
\* the float64 result is NaN.
CoveragePercent(coveredCount, n) == [num |-> coveredCount * 100, den |-> n]

\* is the float64 a NaN?
IsNaN(f) == f.den = 0

\* the first pass of analyzeUncoveredAreas (scheduler.go:197-213): the
\* maximal runs of unset entries, as <<start, end inclusive>>, in order
UncoveredRuns(covered) ==
    LET n == Cardinality(DOMAIN covered)
        starts == {i \in 0..(n - 1) : ~covered[i] /\ (i = 0 \/ covered[i - 1])}
        EndOf(st) == SetMin({j \in st..(n - 1) :
                               ~covered[j] /\ (j = n - 1 \/ covered[j + 1])})
        RECURSIVE Ordered(_)
        Ordered(S) == IF S = {} THEN << >>
                      ELSE LET m == SetMin(S)
                           IN  << <<m, EndOf(m)>> >> \o Ordered(S \ {m})
    IN  Ordered(starts)

\* the merge pass (scheduler.go:216-231) from entry i on, prev being open
RECURSIVE MergeFrom(_, _, _, _)
MergeFrom(uncovered, i, prev, merged) ==
    IF i > Len(uncovered) THEN Append(merged, prev)
    ELSE LET current == uncovered[i]
         IN  IF current[1] - prev[2] < 1024
             THEN MergeFrom(uncovered, i + 1, <<prev[1], current[2]>>, merged)
             ELSE MergeFrom(uncovered, i + 1, current, Append(merged, prev))

\* variant: the run still open at the end of the bitmap is not recorded
analyzeUncoveredAreas_openRunLost(covered) ==
    LET uncovered == UncoveredRuns(covered)
        n == Cardinality(DOMAIN covered)
        closed == SelectSeq(uncovered, LAMBDA u : u[2] < n - 1)
    IN  IF Len(closed) > 1
        THEN MergeFrom(closed, 2, closed[1], << >>)
        ELSE closed

\* variant: the merge pass joins the runs whatever lies between them
analyzeUncoveredAreas_gapIgnored(covered) ==
    LET uncovered == UncoveredRuns(covered)
    IN  IF Len(uncovered) > 1
        THEN << <<uncovered[1][1], uncovered[Len(uncovered)][2]>> >>
        ELSE uncovered

analyzeUncoveredAreas(covered) ==
    LET uncovered == UncoveredRuns(covered)
    IN  IF Len(uncovered) > 1
        THEN MergeFrom(uncovered, 2, uncovered[1], << >>)
        ELSE uncovered

\* the warning test of PrintStats (utils.go:28): float64(TotalSize) >
\* float64(InputSize) * 1.1, on the integers
ExceedsInput(totalSize, inputSize) == 10 * totalSize > 11 * inputSize

\* variant: a single processing error is not reported
ReturnError_moreThanOne(errs) ==
    IF NumErrors(errs) > 1
    THEN [msg |-> "encountered %d processing errors", n |-> NumErrors(errs)]
    ELSE [msg |-> Nil, n |-> 0]

\* the error ProcessFile returns (scheduler.go:189-193)
ReturnError(errs) ==
    IF NumErrors(errs) > 0
    THEN [msg |-> "encountered %d processing errors", n |-> NumErrors(errs)]
    ELSE [msg |-> Nil, n |-> 0]

-----------------------------------------------------------------------------
(* ProcessFile: the state after its set-up (scheduler.go:16-29, 121-126).  *)

data == Whole(input)

\* the arguments and everything ProcessFile sets up before its loop
InitArgs(k, w, allowed, faults) ==
    /\ input = k
    /\ numWorkers = w
    /\ allowedExtensions = allowed
    /\ pos = 0
    /\ counter = 1
    /\ officeQueue = << >>
    /\ regularQueue = << >>
    /\ backoff = FALSE
    /\ jobs = << >>
    /\ jobsClosed = FALSE
    /\ wpc = [i \in 1..w |-> "recv"]
    /\ taken = [i \in 1..w |-> NilPtr]
    /\ held = [i \in 1..w |-> NilPtr]
    /\ chanResults = << >>
    /\ resultsClosed = FALSE
    /\ apc = "loop"
    /\ results = << >>
    /\ processingErrors = [e \in ErrKinds |-> 0]
    /\ extractedFiles = 0
    /\ extractedRanges = << >>
    /\ stats = [TotalExtracted |-> 0, TotalSize |-> 0,
                InputSize |-> Len(Inputs[k]), Overlaps |-> 0,
                Coverage |-> [num |-> 0, den |-> 1],
                UncoveredAreas |-> << >>, FileTypes |-> << >>]
    /\ disk = << >>
    /\ writeCalls = 0
    /\ writeFailures = 0
    /\ diskFaults = faults
    /\ dispatched = 0
    /\ ret = NilPtr

InitRun(k, w, allowed, faults) ==
    /\ InitArgs(k, w, allowed, faults)
    /\ pc = "loop"

\* ProcessFile on input k with every worker count if the input is short,
\* with one worker if it is long
InitOn(k, faults) ==
    \E w \in 1..MaxWorkers, allowed \in AllowSets :
        /\ k \in ShortInputs \/ w = 1
        /\ InitRun(k, w, allowed, faults)

\* index of an input in Inputs
InputIndex(in) == CHOOSE k \in 1..Len(Inputs) : Inputs[k] = in

\* the short inputs and InGapEdge, on an output directory that takes every write
Init ==
    \E k \in ShortInputs \cup {InputIndex(InGapEdge)} : InitOn(k, 0)

\* the same on an output directory that refuses up to MaxWriteFailures writes
InitDisk ==
    \E k \in ShortInputs \cup {InputIndex(InGapEdge)} : InitOn(k, MaxWriteFailures)

\* main (main.go:22-75) with the -ext flag at its default and at "all": the
\* short inputs and InGapEdge under the allow-set parseExtensions returns
InitAllow ==
    \E k \in ShortInputs \cup {InputIndex(InGapEdge)}, w \in 1..MaxWorkers,
       f \in ExtFlags :
        /\ k \in ShortInputs \/ w = 1
        /\ InitRun(k, w, parseExtensions(f), 0)

\* the short inputs and the ZIP container with a Word content-types part
InitOffice ==
    \E k \in ShortInputs \cup {InputIndex(InDocx)} : InitOn(k, 0)

\* the inputs that put the boundary resolver to the test: PDFs with each
\* trailer, a ZIP without its end record, a JPEG with a second header
ResolverInputs ==
    {InputIndex(in) : in \in {InPdfLF, InPdfCR, InPdfCRLF, InPdfSP, InPdfBare,
                              InZipCut, InJpegTwice}}

InitResolve ==
    \E k \in ShortInputs \cup ResolverInputs : InitOn(k, 0)

\* ss.SkipSpace on the runes rs from i on for Sscanf, where a newline is
\* no blank: the index of the first rune that is none, 0 for the error
\* "unexpected newline"
RECURSIVE SkipSpace(_, _)
SkipSpace(rs, i) ==
    IF i > Len(rs) THEN i
    ELSE IF rs[i] = 13 /\ i < Len(rs) /\ rs[i + 1] = 10 THEN SkipSpace(rs, i + 1)
    ELSE IF rs[i] = 10 THEN 0
    ELSE IF IsSpace(rs[i]) THEN SkipSpace(rs, i + 1)
    ELSE i

\* the value of the decimal digits ds; the counts of WorkerArgs have one
\* digit, and a value is computed as long as it is an integer of TLC
RECURSIVE ScanDigits(_, _)
ScanDigits(ds, acc) ==
    IF ds = << >> THEN acc
    ELSE ScanDigits(Tail(ds), 10 * acc + (Head(ds) - 48))

\* strconv.ParseInt(tok, 10, 64) fails with a value out of range: the
\* digits ds without their leading zeros are more than the 19 of 1<<63, or
\* 19 that come after its digits (those of 1<<63 - 1 without a minus sign)
OutOfRange64(ds, minus) ==
    LET zeros == {i \in 0..Len(ds) : \A j \in 1..i : ds[j] = 48}
        sig == SubSeq(ds, SetMax(zeros) + 1, Len(ds))
        max == <<57, 50, 50, 51, 51, 55, 50, 48, 51, 54, 56, 53, 52, 55, 55,
                 53, 56, 48, IF minus THEN 56 ELSE 55>>
        differ == {i \in 1..19 : Len(sig) = 19 /\ sig[i] # max[i]}
    IN  \/ Len(sig) > 19
        \/ differ # {} /\ sig[SetMin(differ)] > max[SetMin(differ)]

\* scanInt for the verb %d on the runes rs from i on, after the blanks: a
\* sign may come first, one digit at least has to follow, and what comes
\* after the digits is left unread; the end of the input before the first
\* digit is io.EOF
scanInt(rs, i) ==
    LET signed == i <= Len(rs) /\ rs[i] \in {43, 45}
        from == IF signed THEN i + 1 ELSE i
        to == SetMin({t \in from..(Len(rs) + 1) :
                        t > Len(rs) \/ rs[t] \notin 48..57})
        digits == SubSeq(rs, from, to - 1)
    IN  IF i = 0 THEN [n |-> 0, err |-> "unexpected newline"]
        ELSE IF from > Len(rs) THEN [n |-> 0, err |-> ErrEOF]
        ELSE IF to = from THEN [n |-> 0, err |-> "expected integer"]
        ELSE IF OutOfRange64(digits, signed /\ rs[i] = 45)
        THEN [n |-> 0,
              err |-> "strconv.ParseInt: parsing \"" \o StringOf(SubSeq(rs, i, to - 1))
                         \o "\": value out of range"]
        ELSE [n |-> 1, err |-> Nil,
              v |-> IF signed /\ rs[i] = 45 THEN 0 - ScanDigits(digits, 0)
                    ELSE ScanDigits(digits, 0)]

\* n, err := fmt.Sscanf(str, "%d", &v) on the bytes of str: the value is
\* stored only with n = 1
Sscanf(str) == scanInt(utf8Runes(str, 1), SkipSpace(utf8Runes(str, 1), 1))

\* variant: a count below 1 is replaced by the default
mainNumWorkers_defaultRestored(rest, cpus) ==
    IF Len(rest) > 0 /\ Sscanf(rest[1]).n = 1 /\ Sscanf(rest[1]).v >= 1
    THEN Sscanf(rest[1]).v
    ELSE cpus

\* main.go:40-45: the worker count main passes to ProcessFile, rest being
\* the arguments after the output directory and cpus the result of
\* GetPhysicalCPUCount.  Sscanf stores into numWorkers itself, and the
\* branch taken on an invalid count only prints
mainNumWorkers(rest, cpus) ==
    IF Len(rest) > 0 /\ Sscanf(rest[1]).n = 1
    THEN Sscanf(rest[1]).v
    ELSE cpus

\* the arguments after the output directory: none, and the counts "1",
\* "2", " 2", "0", "-1", "abc" and ""
WorkerArgs ==
    { << >>, << <<49>> >>, << <<50>> >>, << <<32, 50>> >>, << <<48>> >>,
      << <<45, 49>> >>, << <<97, 98, 99>> >>, << << >> >> }

\* main on a short input: ProcessFile is entered with the count of
\* mainNumWorkers; with a negative count make(chan FileChunk, numWorkers*2)
\* in NewWorkerPool panics (pool.go:20) and no goroutine is started
InitMain ==
    \E k \in ShortInputs, rest \in WorkerArgs, cpus \in 1..MaxWorkers :
        /\ InitArgs(k, mainNumWorkers(rest, cpus), {}, 0)
        /\ pc = IF mainNumWorkers(rest, cpus) < 0 THEN "panicked" ELSE "loop"

\* the short inputs; the Excel workbook under each allow-set of
\* OleAllowSets; the PowerPoint file and the OpenDocument spreadsheet
InitOle ==
    \/ \E k \in ShortInputs : InitOn(k, 0)
    \/ \E allowed \in OleAllowSets : InitRun(InputIndex(InXls), 1, allowed, 0)
    \/ \E k \in {InputIndex(InPpt), InputIndex(InOds)} : InitRun(k, 1, {}, 0)

\* bounds of the bitmaps analyzeUncoveredAreas is applied to as a function
\* of its argument
MaxLead == 3
MaxRun == 2

\* the widths of the covered stretches between two uncovered runs
GapWidths == {1, 1022, 1023, 1024}

\* range lists whose bitmap over InGapEdge is: lead uncovered bytes, g1
\* covered, u uncovered, then (g2 > 0) g2 covered, and the rest uncovered
AreaRanges ==
    {IF g2 = 0 THEN << <<lead, lead + g1>> >>
     ELSE << <<lead, lead + g1>>, <<lead + g1 + u, lead + g1 + u + g2>> >> :
        lead \in {0, 1, MaxLead}, g1 \in GapWidths,
        u \in 1..MaxRun, g2 \in {0} \cup GapWidths}

\* the bitmaps of those range lists: arguments of analyzeUncoveredAreas,
\* not bitmaps a run of ProcessFile builds
AreaBitmaps == {CoveredMap(ranges, Len(InGapEdge)) : ranges \in AreaRanges}

\* the short inputs and the concatenation of a JPEG and a PDF
InitConcat ==
    \E k \in ShortInputs \cup {InputIndex(InJpegPdf)} : InitOn(k, 0)

-----------------------------------------------------------------------------
(* The scheduler loop (scheduler.go:128-184).                              *)

schedVars == << pos, counter, officeQueue, regularQueue, backoff, dispatched >>
workerVars == << wpc, taken, held, disk, writeCalls, writeFailures, diskFaults >>
aggVars == << apc, results, processingErrors, extractedFiles, extractedRanges, stats >>
argVars == << input, numWorkers, allowedExtensions >>

\* case wp.jobs <- chunk of the office queue (scheduler.go:129-134)
SendOffice ==
    /\ pc = "loop"
    /\ Len(officeQueue) > 0
    /\ Len(jobs) < ChanCap(numWorkers)
    /\ jobs' = Append(jobs, officeQueue[1])
    /\ officeQueue' = Tail(officeQueue)
    /\ counter' = NextCounter(counter)
    /\ dispatched' = dispatched + 1
    /\ backoff' = FALSE
    /\ UNCHANGED << pc, pos, regularQueue, jobsClosed, chanResults, resultsClosed, ret >>
    /\ UNCHANGED << workerVars, aggVars, argVars >>

\* case wp.jobs <- chunk of the regular queue (scheduler.go:140-145)
SendRegular ==
    /\ pc = "loop"
    /\ Len(officeQueue) = 0
    /\ Len(regularQueue) > 0
    /\ Len(jobs) < ChanCap(numWorkers)
    /\ jobs' = Append(jobs, regularQueue[1])
    /\ regularQueue' = Tail(regularQueue)
    /\ counter' = NextCounter(counter)
    /\ dispatched' = dispatched + 1
    /\ backoff' = FALSE
    /\ UNCHANGED << pc, pos, officeQueue, jobsClosed, chanResults, resultsClosed, ret >>
    /\ UNCHANGED << workerVars, aggVars, argVars >>

\* variant: the chunk that could not be sent is dropped from its queue
SendTimeout_headDropped ==
    /\ pc = "loop"
    /\ Len(officeQueue) > 0 \/ Len(regularQueue) > 0
    /\ Len(jobs) = ChanCap(numWorkers)
    /\ backoff' = TRUE
    /\ IF Len(officeQueue) > 0
       THEN officeQueue' = Tail(officeQueue) /\ UNCHANGED regularQueue
       ELSE regularQueue' = Tail(regularQueue) /\ UNCHANGED officeQueue
    /\ UNCHANGED << pc, pos, counter, dispatched,
                    jobs, jobsClosed, chanResults, resultsClosed, ret >>
    /\ UNCHANGED << workerVars, aggVars, argVars >>

\* case <-time.After(backoffTime): the channel stayed full for 100 ms
\* (scheduler.go:135, 146); the loop continues with nothing changed
SendTimeout ==
    /\ pc = "loop"
    /\ Len(officeQueue) > 0 \/ Len(regularQueue) > 0
    /\ Len(jobs) = ChanCap(numWorkers)
    /\ backoff' = TRUE
    /\ UNCHANGED << pc, pos, counter, officeQueue, regularQueue, dispatched,
                    jobs, jobsClosed, chanResults, resultsClosed, ret >>
    /\ UNCHANGED << workerVars, aggVars, argVars >>

\* the test of scheduler.go:153: fewer than 8 bytes remain
remainingTooShort(remaining) == LenB(remaining) < 8

\* scheduler.go:157-166
IsOfficeFile(foundSigs) ==
    \E i \in 1..Len(foundSigs) : IsOfficeExt(foundSigs[i].Extension)

\* variant: the loop scans on while a chunk waits in a queue
Scan_whileQueued ==
    /\ pc = "loop"
    /\ pos < LenB(data)
    /\ LET remaining == SliceFrom(data, pos)
           foundSigs == Scanned(remaining, allowedExtensions)
       IN  /\ ~remainingTooShort(remaining)
           /\ IF IsOfficeFile(foundSigs)
              THEN /\ officeQueue' = Append(officeQueue,
                                        FileChunk(remaining, pos, counter, 1))
                   /\ UNCHANGED regularQueue
              ELSE /\ regularQueue' = Append(regularQueue,
                                        FileChunk(remaining, pos, counter, 0))
                   /\ UNCHANGED officeQueue
    /\ pos' = pos + 1
    /\ UNCHANGED << pc, counter, backoff, dispatched, jobs, jobsClosed,
                    chanResults, resultsClosed, ret >>
    /\ UNCHANGED << workerVars, aggVars, argVars >>

\* the scan step (scheduler.go:151-183) with at least 8 bytes remaining
Scan ==
    /\ pc = "loop"
    /\ Len(officeQueue) = 0
    /\ Len(regularQueue) = 0
    /\ pos < LenB(data)
    /\ LET remaining == SliceFrom(data, pos)
           foundSigs == Scanned(remaining, allowedExtensions)
       IN  /\ ~remainingTooShort(remaining)
           /\ IF IsOfficeFile(foundSigs)
              THEN /\ officeQueue' = Append(officeQueue,
                                        FileChunk(remaining, pos, counter, 1))
                   /\ UNCHANGED regularQueue
              ELSE /\ regularQueue' = Append(regularQueue,
                                        FileChunk(remaining, pos, counter, 0))
                   /\ UNCHANGED officeQueue
    /\ pos' = pos + 1
    /\ UNCHANGED << pc, counter, backoff, dispatched, jobs, jobsClosed,
                    chanResults, resultsClosed, ret >>
    /\ UNCHANGED << workerVars, aggVars, argVars >>

\* the break of scheduler.go:153-155: fewer than 8 bytes remain
ScanBreak ==
    /\ pc = "loop"
    /\ Len(officeQueue) = 0
    /\ Len(regularQueue) = 0
    /\ pos < LenB(data)
    /\ remainingTooShort(SliceFrom(data, pos))
    /\ pc' = "stop"
    /\ UNCHANGED << schedVars, jobs, jobsClosed, chanResults, resultsClosed, ret >>
    /\ UNCHANGED << workerVars, aggVars, argVars >>

\* the loop condition of scheduler.go:128 is false
LoopExit ==
    /\ pc = "loop"
    /\ ~(pos < LenB(data) \/ Len(officeQueue) > 0 \/ Len(regularQueue) > 0)
    /\ pc' = "stop"
    /\ UNCHANGED << schedVars, jobs, jobsClosed, chanResults, resultsClosed, ret >>
    /\ UNCHANGED << workerVars, aggVars, argVars >>

-----------------------------------------------------------------------------
(* WorkerPool.Stop (pool.go:33-37) and the return of ProcessFile.          *)

\* variant: Stop goes on to wait for the workers without closing the channel
StopCloseJobs_notClosed ==
    /\ pc = "stop"
    /\ pc' = "wgWait"
    /\ UNCHANGED << schedVars, jobs, jobsClosed, chanResults, resultsClosed, ret >>
    /\ UNCHANGED << workerVars, aggVars, argVars >>

\* close(wp.jobs)
StopCloseJobs ==
    /\ pc = "stop"
    /\ jobsClosed' = TRUE
    /\ pc' = "wgWait"
    /\ UNCHANGED << schedVars, jobs, chanResults, resultsClosed, ret >>
    /\ UNCHANGED << workerVars, aggVars, argVars >>

\* variant: the results channel is closed without waiting for the workers
StopCloseResults_noWait ==
    /\ pc = "wgWait"
    /\ resultsClosed' = TRUE
    /\ pc' = "resultWait"
    /\ UNCHANGED << schedVars, jobs, jobsClosed, chanResults, ret >>
    /\ UNCHANGED << workerVars, aggVars, argVars >>

\* wp.wg.Wait() returns; close(wp.results)
StopCloseResults ==
    /\ pc = "wgWait"
    /\ \A i \in 1..numWorkers : wpc[i] = "done"
    /\ resultsClosed' = TRUE
    /\ pc' = "resultWait"
    /\ UNCHANGED << schedVars, jobs, jobsClosed, chanResults, ret >>
    /\ UNCHANGED << workerVars, aggVars, argVars >>

\* resultWg.Wait() returns; ProcessFile returns (scheduler.go:187-193)
Return ==
    /\ pc = "resultWait"
    /\ apc = "done"
    /\ ret' = ReturnError(processingErrors)
    /\ pc' = "returned"
    /\ UNCHANGED << schedVars, jobs, jobsClosed, chanResults, resultsClosed >>
    /\ UNCHANGED << workerVars, aggVars, argVars >>

-----------------------------------------------------------------------------
(* worker (pool.go:59-86).                                                 *)

\* chunk := <-jobs (pool.go:64): the chunk leaves the channel
WorkerRecv(i) ==
    /\ wpc[i] = "recv"
    /\ Len(jobs) > 0
    /\ taken' = [taken EXCEPT ![i] = Head(jobs)]
    /\ jobs' = Tail(jobs)
    /\ wpc' = [wpc EXCEPT ![i] = "process"]
    /\ UNCHANGED << pc, schedVars, jobsClosed, chanResults, resultsClosed, ret,
                    held, disk, writeCalls, writeFailures, diskFaults >>
    /\ UNCHANGED << aggVars, argVars >>

\* processor.Process on the chunk received, the file written at its end
\* (pool.go:65-66); the record to send is built from its results
WorkerProcess(i) ==
    /\ wpc[i] = "process"
    /\ LET chunk == taken[i]
           reaches == ReachesWrite(chunk.Data, allowedExtensions)
       IN  \E writeOk \in IF reaches /\ diskFaults > 0 THEN BOOLEAN ELSE {TRUE} :
              \E r \in {ExtractFile(chunk.Data, chunk.Counter, chunk.Start,
                                    allowedExtensions, writeOk)} :
                  /\ held' = [held EXCEPT ![i] =
                                 IF r.err # Nil THEN ErrorResult(r.err)
                                 ELSE SuccessResult(chunk, r)]
                  /\ disk' = IF r.written # NilPtr
                             THEN (r.written.name :> r.written.data) @@ disk
                             ELSE disk
                  /\ writeCalls' = IF r.written # NilPtr THEN writeCalls + 1
                                   ELSE writeCalls
                  /\ writeFailures' = IF writeOk THEN writeFailures
                                      ELSE writeFailures + 1
                  /\ diskFaults' = IF writeOk THEN diskFaults ELSE diskFaults - 1
    /\ taken' = [taken EXCEPT ![i] = NilPtr]
    /\ wpc' = [wpc EXCEPT ![i] = "send"]
    /\ UNCHANGED << pc, schedVars, jobs, jobsClosed, chanResults, resultsClosed, ret >>
    /\ UNCHANGED << aggVars, argVars >>

\* results <- record
WorkerSend(i) ==
    /\ wpc[i] = "send"
    /\ Len(chanResults) < ChanCap(numWorkers)
    /\ chanResults' = Append(chanResults, held[i])
    /\ held' = [held EXCEPT ![i] = NilPtr]
    /\ wpc' = [wpc EXCEPT ![i] = "recv"]
    /\ UNCHANGED << pc, schedVars, jobs, jobsClosed, resultsClosed, ret,
                    taken, disk, writeCalls, writeFailures, diskFaults >>
    /\ UNCHANGED << aggVars, argVars >>

\* range jobs ends: the channel is closed and drained; wg.Done()
WorkerExit(i) ==
    /\ wpc[i] = "recv"
    /\ Len(jobs) = 0
    /\ jobsClosed
    /\ wpc' = [wpc EXCEPT ![i] = "done"]
    /\ UNCHANGED << pc, schedVars, jobs, jobsClosed, chanResults, resultsClosed,
                    ret, taken, held, disk, writeCalls, writeFailures, diskFaults >>
    /\ UNCHANGED << aggVars, argVars >>

-----------------------------------------------------------------------------
(* The aggregator goroutine (scheduler.go:31-119).                         *)

\* one iteration of `for result := range wp.results'
AggRecv ==
    /\ apc = "loop"
    /\ Len(chanResults) > 0
    /\ LET result == Head(chanResults)
       IN  IF result.Error # Nil
           THEN /\ processingErrors' =
                       [processingErrors EXCEPT ![result.Error] = @ + 1]
                /\ UNCHANGED << results, extractedFiles, extractedRanges, stats >>
           ELSE LET newRange == <<result.Start, result.End>>
                IN  /\ extractedFiles' = extractedFiles + 1
                    /\ results' = Append(results, result)
                    /\ stats' = [stats EXCEPT
                           !.TotalSize = @ + result.Size,
                           !.FileTypes = CountType(@, result.FileType),
                           !.Overlaps = IF OverlapFound(extractedRanges, newRange)
                                        THEN @ + 1 ELSE @]
                    /\ extractedRanges' = AcceptRange(extractedRanges, newRange)
                    /\ UNCHANGED processingErrors
    /\ chanResults' = Tail(chanResults)
    /\ UNCHANGED << pc, schedVars, jobs, jobsClosed, resultsClosed, ret, apc >>
    /\ UNCHANGED << workerVars, argVars >>

\* the channel is closed and drained: coverage analysis, resultWg.Done()
AggFinish ==
    /\ apc = "loop"
    /\ Len(chanResults) = 0
    /\ resultsClosed
    /\ LET covered == CoveredMap(extractedRanges, LenB(data))
       IN  stats' = [stats EXCEPT
               !.Coverage = CoveragePercent(CoveredCount(covered), LenB(data)),
               !.TotalExtracted = extractedFiles,
               !.UncoveredAreas = analyzeUncoveredAreas(covered)]
    /\ apc' = "done"
    /\ UNCHANGED << pc, schedVars, jobs, jobsClosed, chanResults, resultsClosed, ret,
                    results, processingErrors, extractedFiles, extractedRanges >>
    /\ UNCHANGED << workerVars, argVars >>

-----------------------------------------------------------------------------
Next ==
    \/ SendOffice
    \/ SendRegular
    \/ SendTimeout
    \/ Scan
    \/ ScanBreak
    \/ LoopExit
    \/ StopCloseJobs
    \/ StopCloseResults
    \/ Return
    \/ \E i \in 1..numWorkers : WorkerRecv(i)
    \/ \E i \in 1..numWorkers : WorkerProcess(i)
    \/ \E i \in 1..numWorkers : WorkerSend(i)
    \/ \E i \in 1..numWorkers : WorkerExit(i)
    \/ AggRecv
    \/ AggFinish

Spec == Init /\ [][Next]_vars
SpecDisk == InitDisk /\ [][Next]_vars
SpecConcat == InitConcat /\ [][Next]_vars
SpecAllow == InitAllow /\ [][Next]_vars
SpecOffice == InitOffice /\ [][Next]_vars
SpecResolve == InitResolve /\ [][Next]_vars
SpecMain == InitMain /\ [][Next]_vars
SpecOle == InitOle /\ [][Next]_vars

\* the steps of the goroutine that runs ProcessFile, the expiry of the
\* back-off timer apart
Scheduler ==
    \/ SendOffice
    \/ SendRegular
    \/ Scan
    \/ ScanBreak
    \/ LoopExit
    \/ StopCloseJobs
    \/ StopCloseResults
    \/ Return

\* the steps of worker goroutine i
Worker(i) ==
    /\ i \in 1..numWorkers
    /\ WorkerRecv(i) \/ WorkerProcess(i) \/ WorkerSend(i) \/ WorkerExit(i)

\* the steps of the aggregator goroutine
Aggregator == AggRecv \/ AggFinish

\* The Go runtime runs every goroutine that stays runnable: a goroutine
\* that can take a step, and keeps being able to, takes it.  A send the
\* channel has room for is taken before the 100 ms timer expires.
Fairness ==
    /\ WF_vars(Scheduler)
    /\ \A i \in 1..MaxWorkers : WF_vars(Worker(i))
    /\ WF_vars(Aggregator)

SpecLive == Init /\ [][Next]_vars /\ Fairness

-----------------------------------------------------------------------------
(* Properties.                                                             *)

\* is the record a success record?
IsSuccess(r) == "Size" \in DOMAIN r

\* the success records produced so far: aggregated, in the results channel,
\* or in the hands of a worker about to send
Produced ==
    {results[i] : i \in 1..Len(results)}
        \cup {chanResults[i] : i \in {j \in 1..Len(chanResults) : IsSuccess(chanResults[j])}}
        \cup {held[i] : i \in {j \in 1..numWorkers : IsSuccess(held[j])}}

RECURSIVE SumSizes(_)
SumSizes(rs) == IF rs = << >> THEN 0 ELSE Head(rs).Size + SumSizes(Tail(rs))

RECURSIVE SumCounts(_)
SumCounts(f) ==
    IF DOMAIN f = {} THEN 0
    ELSE LET k == CHOOSE x \in DOMAIN f : TRUE
         IN  f[k] + SumCounts([x \in DOMAIN f \ {k} |-> f[x]])

\* the offsets of input k at which the scanner finds a signature
CandidateTab ==
    [allowed \in ScanSets |->
        [k \in 1..Len(Inputs) |->
            {p \in 0..(Len(Inputs[k]) - 1) :
                Len(FindFileSignaturesTab[allowed][k][p]) > 0}]]

Candidates == CandidateTab[allowedExtensions][input]

\* the end ExtractFile resolves for the candidate at offset p
EndAt(p) ==
    LET d == SliceFrom(data, p)
    IN  Resolved(d, Scanned(d, allowedExtensions)[1])

\* the number of offsets the scheduler loop scans in an input of n bytes
ScannedOffsets(n) == IF n < 8 THEN 0 ELSE n - 7

Returned == pc = "returned"

\* C1: every success record has Size >= 2048, Size <= L - Start and
\* End = Start + Size, so 0 <= Start < End <= L.
C1_ResultBounds ==
    \A r \in Produced :
        /\ r.Size >= 2048
        /\ r.Size <= LenB(data) - r.Start
        /\ r.End = r.Start + r.Size
        /\ 0 <= r.Start /\ r.Start < r.End /\ r.End <= LenB(data)

\* a run has returned two successes at non-zero offsets, one of them of
\* exactly 2048 bytes
C1_Witness ==
    /\ Returned
    /\ Len(results) = 2
    /\ \E i \in 1..2 : results[i].Size = 2048 /\ results[i].Start > 0

\* C2: the file written for a success record holds exactly the input bytes
\* Start .. End-1, under the name made of the record's Counter and extension.
C2_FileBytes ==
    \A r \in Produced :
        /\ r.Filename \in DOMAIN disk
        /\ Bytes(disk[r.Filename]) = SubSeq(Inputs[input], r.Start + 1, r.End)
        /\ r.Filename.digits = Sprintf04d(r.Counter)

\* a file cut out of the middle of the input is on disk
C2_Witness ==
    \E r \in Produced :
        /\ r.Start = 10
        /\ r.End = 2060
        /\ r.Filename \in DOMAIN disk
        /\ Len(Bytes(disk[r.Filename])) = 2050

\* C3: when ProcessFile returns, the sequence numbers of the written files
\* are exactly 1..k, k being the number of files written.
C3_SequenceGapFree ==
    Returned =>
        {results[i].Counter : i \in 1..Len(results)} = 1..Cardinality(DOMAIN disk)

\* C5: for an input that is the concatenation of N valid files, ProcessFile
\* yields exactly N successes, the i-th covering exactly the i-th file, with
\* Overlaps = 0 and Coverage = 100.
C5_ConcatRoundTrip ==
    (Returned /\ Len(InputParts[input]) > 0) =>
        /\ Len(results) = Len(InputParts[input])
        /\ {<<results[i].Start, results[i].End>> : i \in 1..Len(results)}
              = {InputParts[input][i] : i \in 1..Len(InputParts[input])}
        /\ stats.Overlaps = 0
        /\ stats.Coverage.num = 100 * stats.Coverage.den

\* C6: a failing candidate stops neither the scan nor the aggregation: when
\* ProcessFile returns, every scannable offset was dispatched and answered by
\* a success or an error, the successes are all kept, and the returned error
\* is "encountered N processing errors" iff N > 0.
C6_FailuresDoNotAbort ==
    Returned =>
        /\ dispatched = ScannedOffsets(LenB(data))
        /\ Len(results) + NumErrors(processingErrors) = dispatched
        /\ processingErrors[ErrWrite] = writeFailures
        /\ Len(results) = writeCalls
        /\ stats.TotalExtracted = Len(results)
        /\ \A i \in 1..Len(results) : results[i].Filename \in DOMAIN disk
        /\ (ret.msg # Nil) <=> (NumErrors(processingErrors) > 0)
        /\ ret.n = NumErrors(processingErrors)

\* a run with all three kinds of failure has returned a success
C6_Witness ==
    /\ Returned
    /\ processingErrors[ErrNoSignature] > 0
    /\ processingErrors[ErrTooSmall] > 0
    /\ processingErrors[ErrWrite] > 0
    /\ Len(results) > 0
    /\ ret.msg = "encountered %d processing errors"

\* a run with a single failure has returned
C6_WitnessOne ==
    /\ Returned
    /\ NumErrors(processingErrors) = 1
    /\ ret.n = 1

\* C7: a candidate whose resolved end is below 2048 bytes is rejected as too
\* small: no record, no file, no range and no count for it; a candidate of
\* exactly 2048 bytes or more is accepted.
C7_MinimumSize ==
    /\ \A p \in Candidates :
          /\ EndAt(p) < 2048 =>
                /\ \A r \in Produced : r.Start # p
                /\ \A n \in DOMAIN disk : disk[n].lo # p
                /\ \A i \in 1..Len(extractedRanges) : extractedRanges[i][1] # p
          /\ (EndAt(p) >= 2048 /\ Returned /\ writeFailures = 0) =>
                \E i \in 1..Len(results) :
                    results[i].Start = p /\ results[i].Size = EndAt(p)
    /\ Returned =>
          /\ processingErrors[ErrTooSmall]
                = Cardinality({p \in Candidates : EndAt(p) < 2048})
          /\ stats.TotalExtracted + writeFailures
                = Cardinality({p \in Candidates : EndAt(p) >= 2048})
          /\ stats.TotalSize = SumSizes(results)
          /\ SumCounts(stats.FileTypes) = stats.TotalExtracted

\* a run has returned with a candidate of 2047 bytes rejected and one of
\* 2048 bytes accepted
C7_Witness ==
    /\ Returned
    /\ \E p \in Candidates : EndAt(p) = 2047
    /\ \E p \in Candidates : EndAt(p) = 2048
    /\ processingErrors[ErrTooSmall] = 1
    /\ \E i \in 1..Len(results) : results[i].Size = 2048

\* C8: the accepted ranges are pairwise disjoint; a success whose range
\* meets an accepted one counts as an overlap and is not added, yet is kept
\* in the results, the totals and on disk.
C8_AcceptedRangesDisjoint ==
    /\ \A i, j \in 1..Len(extractedRanges) :
          i # j => \/ extractedRanges[i][2] <= extractedRanges[j][1]
                   \/ extractedRanges[j][2] <= extractedRanges[i][1]
    /\ stats.Overlaps + Len(extractedRanges) = Len(results)
    /\ \A i \in 1..Len(results) :
          LET rg == <<results[i].Start, results[i].End>>
          IN  \E j \in 1..Len(extractedRanges) :
                 \/ extractedRanges[j] = rg
                 \/ /\ rg[1] < extractedRanges[j][2]
                    /\ extractedRanges[j][1] < rg[2]
    /\ extractedFiles = Len(results)
    /\ stats.TotalSize = SumSizes(results)
    /\ \A i \in 1..Len(results) : results[i].Filename \in DOMAIN disk
    /\ Returned => stats.TotalExtracted = Len(results)

\* a run has returned with one overlapping success kept
C8_Witness ==
    /\ Returned
    /\ stats.Overlaps = 1
    /\ Len(extractedRanges) = 1
    /\ Len(results) = 2
    /\ stats.TotalSize = 4098
    /\ Cardinality(DOMAIN disk) = 2

\* C9: when ProcessFile returns, the counts in FileTypes add up to
\* TotalExtracted, which is the number of successes.
C9_FileTypesSum ==
    Returned =>
        /\ SumCounts(stats.FileTypes) = stats.TotalExtracted
        /\ stats.TotalExtracted = Len(results)
        /\ \A label \in DOMAIN stats.FileTypes :
              stats.FileTypes[label]
                 = Cardinality({i \in 1..Len(results) : results[i].FileType = label})

\* a run has returned with two files of one type
C9_Witness ==
    /\ Returned
    /\ "JPEG Image" \in DOMAIN stats.FileTypes
    /\ stats.FileTypes["JPEG Image"] = 2
    /\ stats.TotalExtracted = 2

\* C10: for every input, the empty one included, Coverage is
\* 100 * covered / L, a number in [0, 100].
C10_CoverageInRange ==
    Returned =>
        /\ ~IsNaN(stats.Coverage)
        /\ 0 <= stats.Coverage.num
        /\ stats.Coverage.num <= 100 * stats.Coverage.den


\* C11: when ProcessFile returns with TotalSize above 1.1 times the input
\* length, Overlaps is positive; without an overlap the successes are
\* disjoint ranges of the input and TotalSize cannot exceed its length.
C11_OversizeImpliesOverlap ==
    Returned =>
        /\ ExceedsInput(stats.TotalSize, stats.InputSize) => stats.Overlaps > 0
        /\ stats.Overlaps = 0 => stats.TotalSize <= LenB(data)

\* a run has returned with more bytes extracted than 1.1 times the input
C11_Witness ==
    /\ Returned
    /\ ExceedsInput(stats.TotalSize, stats.InputSize)
    /\ stats.TotalSize > LenB(data)
    /\ stats.Overlaps > 0

\* does a registered magic sequence occur at some offset of input k?
HasMagic(k) ==
    \E p \in 0..(Len(Inputs[k]) - 1), i \in 1..Len(fileSignatures) :
        MatchAt(SliceFrom(Whole(k), p), fileSignatures[i].Offset,
                fileSignatures[i].MagicNumber)

\* C12: on a non-empty input in which no registered magic sequence occurs,
\* ProcessFile returns no extraction, Coverage 0 and the single uncovered
\* range (0, L - 1).
C12_NoMagicNoExtraction ==
    (Returned /\ LenB(data) > 0 /\ ~HasMagic(input)) =>
        /\ results = << >>
        /\ stats.TotalExtracted = 0
        /\ stats.TotalSize = 0
        /\ disk = << >>
        /\ ~IsNaN(stats.Coverage)
        /\ stats.Coverage.num = 0
        /\ stats.UncoveredAreas = << <<0, LenB(data) - 1>> >>

\* a run on 20 bytes without a magic sequence has returned
C12_Witness ==
    /\ Returned
    /\ LenB(data) = 20
    /\ ~HasMagic(input)
    /\ stats.UncoveredAreas = << <<0, 19>> >>
    /\ stats.Coverage = [num |-> 0, den |-> 20]


\* C13: the scanner and ExtractFile give the same answer under the empty
\* allow-set and under the allow-set of -ext all, at every offset of the
\* input; the run under either allow-set sees what the other would see.
C13_AllEqualsEmpty ==
    LET all == parseExtensions(<<97, 108, 108>>)
        Same(d) == /\ Scanned(d, all) = Scanned(d, {})
                   /\ Scanned(d, allowedExtensions) = Scanned(d, {})
    IN  /\ allowedExtensions \in {all, {}}
        /\ pos <= LenB(data) => Same(SliceFrom(data, pos))
        /\ pc = "stop" =>
              \A p \in pos..LenB(data) : Same(SliceFrom(data, p))
        /\ \A i \in 1..Len(jobs) :
              ExtractFile(jobs[i].Data, jobs[i].Counter, jobs[i].Start, all, TRUE)
                 = ExtractFile(jobs[i].Data, jobs[i].Counter, jobs[i].Start, {}, TRUE)

\* a run under -ext all, where every registered extension is allowed, has
\* returned with two files extracted
C13_Witness ==
    /\ Returned
    /\ allowedExtensions = GetSupportedExtensions
    /\ allowedExtensions # {}
    /\ Len(results) = 2


\* C14: the Office Open XML validator accepts a region exactly when its
\* [Content_Types].xml decodes, the kind derived from the Override elements
\* is the expected one and a Default ContentType holds the expected prefix;
\* a region that passes for Word is committed as docx and, once extracted,
\* labelled Word Document (Open XML).
C14_OoxmlAcceptsByContentTypes ==
    /\ \A i \in 1..Len(jobs) :
          /\ validateOfficeOpenXML(StrWordPrefix, WordDocument, jobs[i].Data)
                <=> mainValidateOfficeOpenXML(StrWordPrefix, WordDocument, jobs[i].Data)
          /\ mainValidateOfficeOpenXML(StrWordPrefix, WordDocument, jobs[i].Data)
                => Scanned(jobs[i].Data, allowedExtensions)[1].Extension = "docx"
    /\ \A i \in 1..Len(results) :
          mainValidateOfficeOpenXML(StrWordPrefix, WordDocument,
                                    SliceFrom(data, results[i].Start))
             => results[i].FileType = "Word Document (Open XML)"


\* C15: under fair scheduling of the goroutines every run of ProcessFile
\* returns; in particular no state short of the return is a deadlock.
C15_Terminates == <>Returned

\* a run with two workers has returned after dispatching every candidate
C15_Witness ==
    /\ Returned
    /\ numWorkers = MaxWorkers
    /\ dispatched = ScannedOffsets(LenB(data))
    /\ dispatched > 0


\* the chunks waiting in the scheduler's queues and in the jobs channel
Pending == officeQueue \o regularQueue \o jobs

\* C17: a chunk is enqueued for an offset only if the scanner finds a
\* signature there; an offset without one gets no job, no sequence number
\* and no error record.
C17_OnlyMatchesEnqueued ==
    /\ \A i \in 1..Len(Pending) :
          Scanned(Pending[i].Data, allowedExtensions) # << >>
    /\ processingErrors[ErrNoSignature] = 0
    /\ counter - 1 <= Cardinality({p \in Candidates : p < pos})

\* C18: every offset of [0, L) is scanned, one per step in increasing
\* order, and jobs is closed only with p = L and both queues empty.
C18_ClosesAtEnd ==
    /\ pos = dispatched + Len(officeQueue) + Len(regularQueue)
    /\ \A i \in 1..Len(Pending) : Pending[i].Start < pos
    /\ jobsClosed =>
          /\ pos = LenB(data)
          /\ officeQueue = << >>
          /\ regularQueue = << >>

\* C19: the expiry of the back-off timer changes nothing: the chunk stays
\* at the head of its queue, the counter and the position keep their
\* values, nothing enters jobs; the send that follows takes that same head.
C19_TimeoutChangesNothing ==
    [][/\ (backoff' /\ ~backoff) =>
             /\ Len(jobs) = ChanCap(numWorkers)
             /\ Len(officeQueue) + Len(regularQueue) = 1
             /\ officeQueue' = officeQueue
             /\ regularQueue' = regularQueue
             /\ counter' = counter
             /\ pos' = pos
             /\ dispatched' = dispatched
             /\ jobs' = jobs
             /\ pc' = pc
       /\ backoff =>
             /\ pc = "loop"
             /\ Len(officeQueue) + Len(regularQueue) = 1
             /\ \A i \in 1..Len(officeQueue \o regularQueue) :
                    (officeQueue \o regularQueue)[i].Counter = counter
       /\ (backoff /\ ~backoff') =>
             /\ jobs' = Append(jobs, (officeQueue \o regularQueue)[1])
             /\ Len(officeQueue') + Len(regularQueue') = 0
             /\ counter' = NextCounter(counter)]_vars

\* the timer has expired on a full channel with a chunk waiting
C19_Witness ==
    /\ backoff
    /\ Len(jobs) = ChanCap(numWorkers)
    /\ Len(regularQueue) = 1
    /\ regularQueue[1].Counter = counter
    /\ dispatched = counter - 1

\* the workers holding a chunk to process or its record, yet to be sent
Sending == {i \in 1..numWorkers : wpc[i] \in {"process", "send"}}

\* C20: every chunk sent on jobs is in the channel, with a worker, in the
\* results channel or aggregated, once; results is closed only after every
\* worker has exited; the aggregator finishes only on the closed and
\* drained channel; at the return successes and errors add up to the
\* number of chunks dispatched.
C20_OneRecordPerJob ==
    /\ dispatched = Len(jobs) + Cardinality(Sending) + Len(chanResults)
                       + Len(results) + NumErrors(processingErrors)
    /\ \A i \in 1..numWorkers :
          /\ (wpc[i] = "process") <=> (taken[i] # NilPtr)
          /\ (wpc[i] = "send") <=> (held[i] # NilPtr)
    /\ resultsClosed =>
          /\ \A i \in 1..numWorkers : wpc[i] = "done"
          /\ jobs = << >>
    /\ apc = "done" => resultsClosed /\ chanResults = << >>
    /\ Returned =>
          /\ apc = "done"
          /\ Len(results) + NumErrors(processingErrors) = dispatched
          /\ stats.TotalExtracted = Len(results)

\* results has been closed with records of both workers still in it, and
\* the aggregator has yet to take them
C20_Witness ==
    /\ resultsClosed
    /\ apc = "loop"
    /\ numWorkers = MaxWorkers
    /\ Len(chanResults) >= 2
    /\ dispatched > Len(results) + NumErrors(processingErrors)


\* the extension and the region of the candidates in the hands of the pool:
\* the chunks in jobs whose scan commits to a descriptor
Committed ==
    {i \in 1..Len(jobs) : Scanned(jobs[i].Data, allowedExtensions) # << >>}

CommittedSig(i) == Scanned(jobs[i].Data, allowedExtensions)[1]

\* the length of the line terminator at index e of a region: 1 for a lone
\* LF or CR, 2 for CR LF, 0 otherwise
LineTerminator(d, e) ==
    IF e < LenB(d) /\ ByteAt(d, e) = CharLF THEN 1
    ELSE IF e + 1 < LenB(d) /\ ByteAt(d, e) = CharCR /\ ByteAt(d, e + 1) = CharLF
         THEN 2
    ELSE IF e < LenB(d) /\ ByteAt(d, e) = CharCR THEN 1
    ELSE 0

\* C21: for a candidate committed to pdf, with e the last index of %%EOF,
\* the resolved end is e + 5 plus the length of the line terminator that
\* follows: 1 for LF, 1 for a lone CR, 2 for CR LF.
C21_PdfEndConsumesTerminator ==
    \A i \in Committed :
        CommittedSig(i).Extension = "pdf" =>
            LET d == jobs[i].Data
                e == LastIndex(d, StrEOF)
            IN  /\ e # -1
                /\ Resolved(d, CommittedSig(i)) = e + 5 + LineTerminator(d, e + 5)

\* the resolved end with the foreign-magic clipping of processor.go:103-114
\* left out: refinement, same-magic fallback and clamp from len(data)
ResolveEndUnclipped(d, sig) ==
    ClampEnd(d, SameMagicFallback(d, sig, RefineEnd(d, sig.Extension, LenB(d))))

RefinedFormats == {"jpg", "jpeg", "pdf", "zip", "docx", "xlsx", "pptx", "odt"}

\* C22: for a candidate committed to a refined format the resolved end does
\* not depend on the foreign magic sequences in the region: it is the end
\* the resolver gives with the clipping step left out.
C22_RefinedEndIgnoresForeignMagic ==
    \A i \in Committed :
        CommittedSig(i).Extension \in RefinedFormats =>
            Resolved(jobs[i].Data, CommittedSig(i))
               = ResolveEndUnclipped(jobs[i].Data, CommittedSig(i))

\* has the format terminator of ext been found in the region?
TerminatorFound(d, ext) ==
    CASE ext \in {"jpg", "jpeg"} -> LastIndex(d, MarkerEOI) # -1
      [] ext = "pdf" -> LastIndex(d, StrEOF) # -1
      [] ext \in {"zip", "docx", "xlsx", "pptx", "odt"} -> LastIndex(d, MagicEOCD) # -1
      [] OTHER -> FALSE

\* C23: a candidate whose terminator was found keeps the end derived from
\* the terminator, also when that end is the end of the input and the same
\* magic occurs again inside the region.
C23_FallbackOnlyWithoutTerminator ==
    \A i \in Committed :
        LET d == jobs[i].Data
            ext == CommittedSig(i).Extension
        IN  TerminatorFound(d, ext) =>
                Resolved(d, CommittedSig(i)) = ClampEnd(d, RefineEnd(d, ext, LenB(d)))


\* the merge the claim describes, from entry i on: two consecutive runs are
\* joined when fewer than 1024 covered bytes lie between them
RECURSIVE JoinedFrom(_, _, _, _)
JoinedFrom(runs, i, prev, joined) ==
    IF i > Len(runs) THEN Append(joined, prev)
    ELSE IF runs[i][1] - prev[2] - 1 < 1024
         THEN JoinedFrom(runs, i + 1, <<prev[1], runs[i][2]>>, joined)
         ELSE JoinedFrom(runs, i + 1, runs[i], Append(joined, prev))

JoinedRuns(runs) ==
    IF Len(runs) > 1 THEN JoinedFrom(runs, 2, runs[1], << >>) ELSE runs

C25_StartsWithPositiveWorkers == numWorkers >= 1


\* the chunks waiting in the scheduler's two queues
Queued == officeQueue \o regularQueue

\* C26: the two queues hold at most one chunk between them and are never
\* both non-empty; the chunks in jobs are in strictly increasing Start
\* order and a queued chunk starts after all of them; the sequence number
\* of a chunk is its place in the dispatch order, whatever its priority.
C26_QueuesHoldOneChunk ==
    /\ Len(officeQueue) + Len(regularQueue) <= 1
    /\ ~(Len(officeQueue) > 0 /\ Len(regularQueue) > 0)
    /\ \A i \in 1..(Len(jobs) - 1) : jobs[i].Start < jobs[i + 1].Start
    /\ \A i \in 1..Len(jobs) :
           jobs[i].Counter = dispatched - Len(jobs) + i
    /\ \A q \in 1..Len(Queued) :
           /\ \A i \in 1..Len(jobs) : jobs[i].Start < Queued[q].Start
           /\ Queued[q].Start = pos - 1
           /\ Queued[q].Counter = dispatched + 1

\* an office chunk waits in its queue behind a regular chunk in jobs, or a
\* regular chunk behind an office chunk
C26_Witness ==
    /\ Len(Queued) = 1
    /\ Len(jobs) > 0
    /\ jobs[Len(jobs)].Priority # Queued[1].Priority
    /\ jobs[Len(jobs)].Start < Queued[1].Start


\* the accepted ranges and the overlap count after the records of rs have
\* arrived in the order of rs (scheduler.go:47-59)
RECURSIVE Aggregated(_, _, _)
Aggregated(rs, ranges, overlaps) ==
    IF rs = << >> THEN [ranges |-> ranges, overlaps |-> overlaps]
    ELSE LET newRange == <<Head(rs).Start, Head(rs).End>>
         IN  Aggregated(Tail(rs), AcceptRange(ranges, newRange),
                        IF OverlapFound(ranges, newRange)
                        THEN overlaps + 1 ELSE overlaps)

\* rs with its i-th record moved behind its j-th
Overtaken(rs, i, j) ==
    [k \in 1..Len(rs) |-> IF k < i \/ k > j THEN rs[k]
                          ELSE IF k < j THEN rs[k + 1] ELSE rs[i]]

\* the orders in which the successes of rs arrive when one worker holds
\* one of them while another worker sends those that follow it
ArrivalOrders(rs) ==
    {Overtaken(rs, i, j) : i \in 1..Len(rs), j \in 1..Len(rs)}

C28_MergePassJoinsNothing ==
    /\ \A k \in 1..Len(extractedRanges) :
           /\ 0 <= extractedRanges[k][1]
           /\ extractedRanges[k][2] <= LenB(data)
           /\ extractedRanges[k][2] - extractedRanges[k][1] >= minFileSize
    /\ apc = "done" =>
           LET areas == stats.UncoveredAreas
           IN  /\ areas = UncoveredRuns(CoveredMap(extractedRanges, LenB(data)))
               /\ \A k \in 1..(Len(areas) - 1) :
                      areas[k + 1][1] - areas[k][2] - 1 >= minFileSize

\* the analysis has run on a bitmap with two uncovered runs, which it
\* reports apart
C28_Witness ==
    /\ apc = "done"
    /\ Len(UncoveredRuns(CoveredMap(extractedRanges, LenB(data)))) = 2
    /\ Len(stats.UncoveredAreas) = 2


\* the extensions that share magic and validator with an earlier entry
ShadowedExtensions == {"ppt", "xls", "jpeg", "ods", "ots", "odp"}

\* C29: with an empty allow-set a candidate is never committed to ppt, xls,
\* jpeg, ods, ots or odp: a region with the MS-OLE magic is committed to
\* doc, a region that is an OpenDocument ZIP to odt, and the files written
\* carry these extensions.
C29_ShadowedNeverCommitted ==
    allowedExtensions = {} =>
        /\ \A i \in Committed :
               /\ CommittedSig(i).Extension \notin ShadowedExtensions
               /\ HasPrefix(jobs[i].Data, MagicOLE) =>
                      CommittedSig(i).Extension = "doc"
               /\ (HasPrefix(jobs[i].Data, MagicPK)
                      /\ validateOpenDocument(jobs[i].Data)) =>
                      CommittedSig(i).Extension = "odt"
        /\ \A r \in Produced :
               /\ r.Filename.ext \notin ShadowedExtensions
               /\ HasPrefix(SliceFrom(data, r.Start), MagicOLE) =>
                      r.Filename.ext = "doc"

\* an Excel workbook has been written as a .doc file
C29_Witness ==
    /\ allowedExtensions = {}
    /\ \E r \in Produced :
           /\ r.Filename.ext = "doc"
           /\ r.OfficeInfo # NilPtr
           /\ r.OfficeInfo.Type = ExcelDocument

\* the places of the two binary office inputs in Inputs
XlsInput == InputIndex(InXls)
PptInput == InputIndex(InPpt)

\* C30: a success record has an OfficeInfo exactly when its extension
\* starts with doc, xls or ppt.  For doc, xls and ppt the kind is the first
\* of WordDocument, Workbook, PowerPoint found in the region, has_macro says
\* whether _VBA_PROJECT occurs in it, and is_encrypted follows the markers:
\* the workbook of InXls (flag byte 0x2F odd) is an encrypted Excel file
\* with macros, the file of InPpt a plain PowerPoint file.  For docx, xlsx
\* and pptx the OfficeInfo is the zero value.
C30_OfficeInfoByExtension ==
    /\ \A r \in Produced :
           LET ext == r.Filename.ext
           IN  /\ (r.OfficeInfo # NilPtr) <=>
                      ext \in {"doc", "docx", "xls", "xlsx", "ppt", "pptx"}
               /\ (ext \in {"doc", "xls", "ppt"} /\ input = XlsInput) =>
                      r.OfficeInfo = [Type |-> ExcelDocument, Version |-> "",
                                      IsEncrypted |-> TRUE, IsMacro |-> TRUE]
               /\ (ext \in {"doc", "xls", "ppt"} /\ input = PptInput) =>
                      r.OfficeInfo = [Type |-> PowerPointDocument, Version |-> "",
                                      IsEncrypted |-> FALSE, IsMacro |-> FALSE]
               /\ ext \in {"docx", "xlsx", "pptx"} => r.OfficeInfo = ZeroOfficeInfo
    /\ Returned =>
           \A r \in Produced :
               LET region == SliceFrom(data, r.Start)
               IN  r.Filename.ext \in {"doc", "xls", "ppt"} =>
                      /\ r.OfficeInfo.Type =
                             IF Contains(region, StrWordDocument) THEN WordDocument
                             ELSE IF Contains(region, StrWorkbook) THEN ExcelDocument
                             ELSE IF Contains(region, StrPowerPoint)
                                  THEN PowerPointDocument
                             ELSE UnknownOffice
                      /\ r.OfficeInfo.IsMacro = Contains(region, StrVbaProject)

\* the workbook has been written under the allow-set {xls}, with its info
C30_Witness ==
    /\ allowedExtensions = {"xls"}
    /\ \E r \in Produced :
           /\ r.Filename.ext = "xls"
           /\ r.OfficeInfo # NilPtr
           /\ r.OfficeInfo.IsEncrypted


=============================================================================
